---- MODULE Spec2Model ----
(***************************************************************************)
(* The test-submission and result pipeline of the RDT backend:             *)
(* backend/src/controllers/testController.ts, the upload and error         *)
(* middleware, and the statistics of controllers/adminController.ts.       *)
(*                                                                         *)
(* A handler is a chain of actions, one per awaited operation on shared    *)
(* state (the tests table, the image directory) together with the          *)
(* synchronous code that follows it; handlers of different requests        *)
(* interleave between these actions.  Request inputs that nothing else can *)
(* observe are drawn in the action that consumes them.  resp is the        *)
(* response a step sends; it is delivered before the next step is taken.   *)
(***************************************************************************)
EXTENDS Integers, Sequences, FiniteSets, TLC

VARIABLES tests,     \* the tests table: id |-> row
          files,     \* file names present in uploads/test-images
          nextId,    \* next id the table hands out
          nextFile,  \* next unique file name
          owner,     \* history: id |-> userId of every row ever created
          req,       \* request in flight per connection slot
          resp,      \* the response sent by the last step
          lastStats, \* history: the last response of getUserTestStats
                     \* since the table last changed
          users,     \* the ids of the rows of the users table
          refreshTokens, \* the rows of the refresh_tokens table
          nextToken, \* next id the refresh_tokens table hands out
          clock,     \* Date.now(), in seconds
          redeemed,  \* history: the refresh tokens redeemed or logged out
          issued,    \* history: the tokens the responses have carried
          storage,   \* the browser's localStorage
          href,      \* window.location.href
          client     \* the API client's requests in flight

vars == <<tests, files, nextId, nextFile, owner, req, resp, lastStats, users,
          refreshTokens, nextToken, clock, redeemed, issued, storage, href,
          client>>

\* The state of the sessions (auth controller) and of the browser
session == <<refreshTokens, nextToken, clock, redeemed, issued>>
browser == <<storage, href, client>>

----------------------------------------------------------------------------
\* Bounds of the model
MaxTests == 1      \* createTest requests that pass intake in a behaviour of Spec
MaxPositive == 3   \* rows per result and user in the tables StatsSpec starts from
MaxNegative == 6
MaxOther == 1

Users == {"userA", "userB"}
Slots == {"c1", "c2"}          \* connections: requests in flight together

NULL == "NULL"                 \* null / undefined of a string-valued field
NoTest == [id |-> 0]           \* null of a row-valued expression
NoFloat == -1000               \* null of a Float? column

----------------------------------------------------------------------------
\* schema.prisma
TestType == {"COVID_19", "PREGNANCY", "INFLUENZA_A", "INFLUENZA_B", "STREP_A", "OTHER"}
TestResult == {"POSITIVE", "NEGATIVE", "INVALID", "INCONCLUSIVE"}

\* Confidence is a Float in the source; the model counts it in hundredths.
mockResults ==
  { [result |-> "POSITIVE",     confidence |-> 92],
    [result |-> "NEGATIVE",     confidence |-> 88],
    [result |-> "INVALID",      confidence |-> 95],
    [result |-> "INCONCLUSIVE", confidence |-> 45] }

\* analyzeTestImage: the mock picks any of mockResults, whatever the image.
analyzeTestImage == mockResults

----------------------------------------------------------------------------
\* Image intake

UPLOAD_MAX_SIZE == 5242880
allowedTypes == {"image/jpeg", "image/png", "image/webp"}

\* What sharp reports of an uploaded buffer.
Image(decodable, width, height, brightness, edge) ==
  [decodable |-> decodable, width |-> width, height |-> height,
   brightness |-> brightness, edge |-> edge]

Images ==
  { Image(TRUE, 300, 300, 128, 50),     \* a good photo
    Image(TRUE, 200, 200, 30, 10),      \* exactly at every threshold
    Image(TRUE, 0, 0, 225, 50),         \* no dimensions in the metadata
    Image(TRUE, 300, 300, 5, 50),       \* all black
    Image(TRUE, 199, 199, 226, 9),      \* small, too bright and blurry
    Image(FALSE, 0, 0, 0, 0) }          \* sharp throws

File(mimetype, size) == [present |-> TRUE, mimetype |-> mimetype, size |-> size]
NoFile == [present |-> FALSE, mimetype |-> NULL, size |-> 0]

Files ==
  { File("image/jpeg", 2097152),
    File("image/jpeg", UPLOAD_MAX_SIZE),
    File("image/jpeg", UPLOAD_MAX_SIZE + 1),
    File("image/gif", 8388608),
    NoFile }

\* validateRDTImage: the list of issues, in the order the code pushes them.
validateRDTImage(img) ==
  IF ~img.decodable
    THEN [isValid |-> FALSE, issues |-> <<"Failed to validate image">>]
    ELSE LET w == IF img.width # 0 /\ img.width < 200
                    THEN <<"Image width is too small (minimum 200px)">> ELSE <<>>
             h == IF img.height # 0 /\ img.height < 200
                    THEN <<"Image height is too small (minimum 200px)">> ELSE <<>>
             b == IF img.brightness < 30 THEN <<"Image appears too dark">>
                  ELSE IF img.brightness > 225 THEN <<"Image appears too bright">>
                  ELSE <<>>
             e == IF img.edge < 10 THEN <<"Image appears blurry">> ELSE <<>>
             issues == w \o h \o b \o e
         IN  [isValid |-> Len(issues) = 0, issues |-> issues]

\* errorHandler: status and code of the response for a thrown error.
AppError(statusCode, code) == [kind |-> "AppError", statusCode |-> statusCode, code |-> code]
MulterError(code) == [kind |-> "MulterError", statusCode |-> 0, code |-> code]
PrismaClientKnownRequestError(code) ==
  [kind |-> "PrismaClientKnownRequestError", statusCode |-> 0, code |-> code]
PrismaClientValidationError ==
  [kind |-> "PrismaClientValidationError", statusCode |-> 0, code |-> NULL]

\* an errorHandler without the case for P2025, record not found
errorHandlerNoP2025(error) ==
  IF error.kind = "AppError"
    THEN [status |-> error.statusCode,
          code |-> IF error.code = NULL THEN "APP_ERROR" ELSE error.code]
  ELSE IF error.kind = "PrismaClientKnownRequestError"
    THEN IF error.code = "P2002" THEN [status |-> 409, code |-> "DUPLICATE_RECORD"]
         ELSE IF error.code = "P2003" THEN [status |-> 400, code |-> "INVALID_REFERENCE"]
         ELSE [status |-> 400, code |-> "DATABASE_ERROR"]
  ELSE IF error.kind = "PrismaClientValidationError"
    THEN [status |-> 400, code |-> "VALIDATION_ERROR"]
  ELSE IF error.kind = "MulterError"
    THEN IF error.code = "LIMIT_FILE_SIZE" THEN [status |-> 400, code |-> "FILE_TOO_LARGE"]
         ELSE IF error.code = "LIMIT_FILE_COUNT" THEN [status |-> 400, code |-> "TOO_MANY_FILES"]
         ELSE IF error.code = "LIMIT_UNEXPECTED_FILE" THEN [status |-> 400, code |-> "UNEXPECTED_FILE"]
         ELSE [status |-> 400, code |-> "UPLOAD_ERROR"]
  ELSE [status |-> 500, code |-> "INTERNAL_ERROR"]

\* an errorHandler without the branch for Multer errors
errorHandlerNoMulter(error) ==
  IF error.kind = "AppError"
    THEN [status |-> error.statusCode,
          code |-> IF error.code = NULL THEN "APP_ERROR" ELSE error.code]
  ELSE IF error.kind = "PrismaClientKnownRequestError"
    THEN IF error.code = "P2002" THEN [status |-> 409, code |-> "DUPLICATE_RECORD"]
         ELSE IF error.code = "P2025" THEN [status |-> 404, code |-> "RECORD_NOT_FOUND"]
         ELSE IF error.code = "P2003" THEN [status |-> 400, code |-> "INVALID_REFERENCE"]
         ELSE [status |-> 400, code |-> "DATABASE_ERROR"]
  ELSE IF error.kind = "PrismaClientValidationError"
    THEN [status |-> 400, code |-> "VALIDATION_ERROR"]
  ELSE [status |-> 500, code |-> "INTERNAL_ERROR"]

errorHandler(error) ==
  IF error.kind = "AppError"
    THEN [status |-> error.statusCode,
          code |-> IF error.code = NULL THEN "APP_ERROR" ELSE error.code]
  ELSE IF error.kind = "PrismaClientKnownRequestError"
    THEN IF error.code = "P2002" THEN [status |-> 409, code |-> "DUPLICATE_RECORD"]
         ELSE IF error.code = "P2025" THEN [status |-> 404, code |-> "RECORD_NOT_FOUND"]
         ELSE IF error.code = "P2003" THEN [status |-> 400, code |-> "INVALID_REFERENCE"]
         ELSE [status |-> 400, code |-> "DATABASE_ERROR"]
  ELSE IF error.kind = "PrismaClientValidationError"
    THEN [status |-> 400, code |-> "VALIDATION_ERROR"]
  ELSE IF error.kind = "MulterError"
    THEN IF error.code = "LIMIT_FILE_SIZE" THEN [status |-> 400, code |-> "FILE_TOO_LARGE"]
         ELSE IF error.code = "LIMIT_FILE_COUNT" THEN [status |-> 400, code |-> "TOO_MANY_FILES"]
         ELSE IF error.code = "LIMIT_UNEXPECTED_FILE" THEN [status |-> 400, code |-> "UNEXPECTED_FILE"]
         ELSE [status |-> 400, code |-> "UPLOAD_ERROR"]
  ELSE [status |-> 500, code |-> "INTERNAL_ERROR"]

\* uploadTestImage = upload.single('testImage'): "ok", or the error multer
\* passes on.  fileFilter runs when the file part starts, the size limit
\* while its bytes stream in.
NoError == [kind |-> "none", statusCode |-> 0, code |-> NULL]
uploadTestImage(file) ==
  IF ~file.present THEN NoError
  ELSE IF file.mimetype \notin allowedTypes THEN AppError(400, "INVALID_FILE_TYPE")
  ELSE IF file.size > UPLOAD_MAX_SIZE THEN MulterError("LIMIT_FILE_SIZE")
  ELSE NoError

\* processTestImage: the URL under which a stored file is served.
Url(filename) == <<"/uploads/test-images/", filename>>
NoUrl == <<NULL, 0>>

----------------------------------------------------------------------------
\* Requests and responses

\* A connection's request: the handler, where it stands, and its locals.
Request(op, pc, user, testId, imageUrl) ==
  [op |-> op, pc |-> pc, user |-> user, testId |-> testId,
   imageUrl |-> imageUrl, loc |-> <<>>]

Idle == Request("none", "idle", NULL, 0, NoUrl)

\* Connections are interchangeable: a new request takes the first free one,
\* and when the request of c1 is answered the one of c2 is renamed c1.
Free(s) == /\ req[s].pc = "idle"
           /\ (s = "c1" \/ req["c1"].pc # "idle")

Answered(s) ==
  IF s = "c1" THEN [t \in Slots |-> IF t = "c1" THEN req["c2"] ELSE Idle]
              ELSE [req EXCEPT ![s] = Idle]

NoInput == [stage |-> "none"]

Response(op, user, testId, status, code, data, input) ==
  [op |-> op, user |-> user, testId |-> testId, status |-> status,
   code |-> code, data |-> data, input |-> input]

\* asyncHandler passes a thrown error to errorHandler, which answers.
Fail(op, user, testId, error, input) ==
  LET e == errorHandler(error)
  IN  Response(op, user, testId, e.status, e.code, NoTest, input)

NoResponse == Response("none", NULL, 0, 0, NULL, NoTest, NoInput)

\* No session exists and the browser holds no tokens.
NoToken == [payload |-> [type |-> "none"], secret |-> NULL, iat |-> 0, exp |-> 0]
NoTokens == [accessToken |-> NoToken, refreshToken |-> NoToken]

SessionInit ==
  /\ refreshTokens = {}
  /\ nextToken = 1
  /\ clock = 0
  /\ redeemed = {}
  /\ issued = {}

BrowserInit ==
  /\ storage = NoTokens
  /\ href = "/"
  /\ client = <<>>

Init ==
  /\ tests = <<>>
  /\ files = {}
  /\ nextId = 1
  /\ nextFile = 1
  /\ owner = <<>>
  /\ req = [s \in Slots |-> Idle]
  /\ resp = NoResponse
  /\ lastStats = NoResponse
  /\ users = Users
  /\ SessionInit /\ BrowserInit

----------------------------------------------------------------------------
\* a userId column with no relation to the users table
ForeignKeyAbsent(userId) == TRUE

\* @relation(fields: [userId], references: [id]) of Test and RefreshToken
\* (schema.prisma lines 43 and 72): a row is stored only for an existing user
ForeignKey(userId) == userId \in users

----------------------------------------------------------------------------
\* The tests table (prisma.test)

TestIds == 1..(MaxTests + 1)

\* findFirst that leaves the userId condition out
FindFirstAnyOwner(id, userId) ==
  IF id \in DOMAIN tests THEN tests[id] ELSE NoTest

\* findFirst({ where: { id, userId } })
FindFirst(id, userId) ==
  IF id \in DOMAIN tests /\ tests[id].userId = userId THEN tests[id] ELSE NoTest

\* update({ where: { id }, data }): the row with the fields of data replaced.
Updated(row, data) ==
  [f \in DOMAIN row |-> IF f \in DOMAIN data THEN data[f] ELSE row[f]]

Without(id) == [i \in DOMAIN tests \ {id} |-> tests[i]]

----------------------------------------------------------------------------
\* createTest

BodyTestTypes == {"COVID_19", "MALARIA"}
BodyLocations == {NULL, "Clinic"}
BodyAnonymous == {NULL, "true", "false"}
NotValidated == [isValid |-> FALSE, issues |-> <<"not validated">>]

\* The latitude and longitude of the multipart body: strings, or NULL when
\* the field is not sent.  POST / runs no validateRequest (routes/tests.ts
\* lines 22-26): any string reaches the handler.
Coordinates(latitude, longitude) == [latitude |-> latitude, longitude |-> longitude]
NoCoordinates == Coordinates(NULL, NULL)

BodyCoordinates ==
  { NoCoordinates,
    Coordinates("45", "-122"),
    Coordinates("45", ""),
    Coordinates("0", "0"),
    Coordinates("91", "10"),
    Coordinates("45", "181") }

\* parseFloat on the strings of BodyCoordinates
Floats ==
  { <<"45", 45>>, <<"-122", -122>>, <<"0", 0>>, <<"91", 91>>, <<"10", 10>>,
    <<"181", 181>> }

parseFloat(string) == (CHOOSE p \in Floats : p[1] = string)[2]

\* a gate whose verdict is not looked at
GateRejectsNever(validation) == FALSE

\* line 63: the quality gate stops the request
GateRejects(validation) == ~validation.isValid

\* create data of a row inserted before its classification is known
CreateDataPending(userId, testType, analysis, imageUrl, latitude, longitude, location, isAnonymous) ==
  [id |-> nextId,
   userId |-> userId,
   testType |-> testType,
   result |-> NULL,
   confidence |-> NULL,
   imageUrl |-> imageUrl,
   latitude |-> IF latitude # NULL /\ latitude # "" THEN parseFloat(latitude) ELSE NoFloat,
   longitude |-> IF longitude # NULL /\ longitude # "" THEN parseFloat(longitude) ELSE NoFloat,
   location |-> location,
   isAnonymous |-> (isAnonymous = "true"),
   testDate |-> nextId]

\* create data that stores the confidence as a percentage
CreateDataPercent(userId, testType, analysis, imageUrl, latitude, longitude, location, isAnonymous) ==
  [id |-> nextId,
   userId |-> userId,
   testType |-> testType,
   result |-> analysis.result,
   confidence |-> analysis.confidence * 100,
   imageUrl |-> imageUrl,
   latitude |-> IF latitude # NULL /\ latitude # "" THEN parseFloat(latitude) ELSE NoFloat,
   longitude |-> IF longitude # NULL /\ longitude # "" THEN parseFloat(longitude) ELSE NoFloat,
   location |-> location,
   isAnonymous |-> (isAnonymous = "true"),
   testDate |-> nextId]

\* the data of prisma.test.create, lines 82-92; testDate defaults to now(),
\* which grows with the id.
CreateData(userId, testType, analysis, imageUrl, latitude, longitude, location, isAnonymous) ==
  [id |-> nextId,
   userId |-> userId,
   testType |-> testType,
   result |-> analysis.result,
   confidence |-> analysis.confidence,
   imageUrl |-> imageUrl,
   latitude |-> IF latitude # NULL /\ latitude # "" THEN parseFloat(latitude) ELSE NoFloat,
   longitude |-> IF longitude # NULL /\ longitude # "" THEN parseFloat(longitude) ELSE NoFloat,
   location |-> location,
   isAnonymous |-> (isAnonymous = "true"),
   testDate |-> nextId]

Creating == Cardinality({s \in Slots : req[s].pc = "process"})

\* authenticateUser, uploadTestImage, then createTest up to its first write
\* to shared state (lines 51-68), for a request of user u that carries file,
\* in which sharp finds img
CreateIntakeOf(s, u, file, img) ==
  /\ Free(s)
  /\ LET error == uploadTestImage(file)
         validation == validateRDTImage(img)
         Input(v) == [stage |-> "intake", file |-> file, validation |-> v]
     IN  IF error # NoError
           THEN /\ resp' = Fail("create", u, 0, error, Input(NotValidated))
                /\ UNCHANGED req
         ELSE IF ~file.present
           THEN /\ resp' = Fail("create", u, 0, AppError(400, "IMAGE_REQUIRED"),
                                Input(NotValidated))
                /\ UNCHANGED req
         ELSE IF GateRejects(validation)
           THEN /\ resp' = Fail("create", u, 0, AppError(400, "POOR_IMAGE_QUALITY"),
                                Input(validation))
                /\ UNCHANGED req
         ELSE /\ nextFile + Creating <= MaxTests
              /\ req' = [req EXCEPT ![s] = Request("create", "process", u, 0, NoUrl)]
              /\ resp' = NoResponse
  /\ UNCHANGED <<tests, files, nextId, nextFile, owner, lastStats, users, session, browser>>

CreateIntake(s) ==
  \E u \in users, file \in Files, img \in Images : CreateIntakeOf(s, u, file, img)

\* processTestImage (lines 71-75): the file is written, or the call throws
CreateProcess(s) ==
  /\ req[s].op = "create" /\ req[s].pc = "process"
  /\ \E written \in BOOLEAN :
       IF written
         THEN /\ files' = files \cup {nextFile}
              /\ nextFile' = nextFile + 1
              /\ req' = [req EXCEPT ![s].pc = "write", ![s].imageUrl = Url(nextFile)]
              /\ resp' = NoResponse
         ELSE /\ resp' = Fail("create", req[s].user, 0,
                              AppError(500, "IMAGE_PROCESSING_ERROR"),
                              [stage |-> "process", imageUrl |-> NoUrl,
                               testType |-> NULL])
              /\ req' = Answered(s)
              /\ UNCHANGED <<files, nextFile>>
  /\ UNCHANGED <<tests, nextId, owner, lastStats, users, session, browser>>

\* analyzeTestImage, prisma.test.create and the 201 response (lines 78-120),
\* for a request whose body carries one of coordinates
CreateWriteOf(s, coordinates) ==
  /\ req[s].op = "create" /\ req[s].pc = "write"
  /\ \E analysis \in analyzeTestImage, testType \in BodyTestTypes,
        location \in BodyLocations, isAnonymous \in BodyAnonymous,
        at \in coordinates :
       LET test == CreateData(req[s].user, testType, analysis, req[s].imageUrl,
                              at.latitude, at.longitude, location, isAnonymous)
           input == [stage |-> "write", imageUrl |-> req[s].imageUrl,
                     testType |-> testType, at |-> at]
       IN  IF testType \notin TestType
             THEN /\ resp' = Fail("create", req[s].user, 0,
                                  PrismaClientValidationError, input)
                  /\ UNCHANGED <<tests, nextId, owner, lastStats>>
           ELSE IF ~ForeignKey(req[s].user)
             THEN /\ resp' = Fail("create", req[s].user, 0,
                                  PrismaClientKnownRequestError("P2003"), input)
                  /\ UNCHANGED <<tests, nextId, owner, lastStats>>
             ELSE /\ tests' = (test.id :> test) @@ tests
                  /\ owner' = (test.id :> test.userId) @@ owner
                  /\ nextId' = nextId + 1
                  /\ lastStats' = NoResponse
                  /\ resp' = Response("create", req[s].user, test.id, 201, "OK",
                                      test, input)
  /\ req' = Answered(s)
  /\ UNCHANGED <<files, nextFile, users, session, browser>>

\* the requests of Spec and ReadSpec send no coordinates
CreateWrite(s) == CreateWriteOf(s, {NoCoordinates})

----------------------------------------------------------------------------
\* getTestById (lines 198-230)
GetTestById(s) ==
  /\ Free(s)
  /\ \E u \in users, testId \in TestIds :
       LET test == FindFirst(testId, u)
       IN  resp' = IF test = NoTest
                     THEN Fail("get", u, testId, AppError(404, "TEST_NOT_FOUND"), NoInput)
                     ELSE Response("get", u, testId, 200, "OK", test, NoInput)
  /\ UNCHANGED <<tests, files, nextId, nextFile, owner, req, lastStats, users, session, browser>>

\* The ownership lookup that opens deleteTest, updateTest and reanalyzeTest
\* (lines 240-249, 349-358, 383-396)
Lookup(s, op) ==
  /\ Free(s)
  /\ \E u \in users, testId \in TestIds :
       LET test == FindFirst(testId, u)
       IN  IF test = NoTest
             THEN /\ resp' = Fail(op, u, testId, AppError(404, "TEST_NOT_FOUND"), NoInput)
                  /\ UNCHANGED req
           ELSE IF op = "reanalyze" /\ test.imageUrl = NoUrl
             THEN /\ resp' = Fail(op, u, testId, AppError(400, "NO_IMAGE_FOUND"), NoInput)
                  /\ UNCHANGED req
           ELSE /\ req' = [req EXCEPT ![s] = Request(op, "write", u, testId, NoUrl)]
                /\ resp' = NoResponse
  /\ UNCHANGED <<tests, files, nextId, nextFile, owner, lastStats, users, session, browser>>

DeleteFind(s) == Lookup(s, "delete")
UpdateFind(s) == Lookup(s, "update")
ReanalyzeFind(s) == Lookup(s, "reanalyze")

\* prisma.test.delete({ where: { id } }) and the response (lines 252-262);
\* the image file is left in place (line 256).
DeleteWrite(s) ==
  /\ req[s].op = "delete" /\ req[s].pc = "write"
  /\ LET id == req[s].testId
     IN  IF id \notin DOMAIN tests
           THEN /\ resp' = Fail("delete", req[s].user, id,
                                PrismaClientKnownRequestError("P2025"), NoInput)
                /\ UNCHANGED <<tests, lastStats>>
           ELSE /\ tests' = Without(id)
                /\ lastStats' = NoResponse
                /\ resp' = Response("delete", req[s].user, id, 200, "OK", NoTest, NoInput)
  /\ req' = Answered(s)
  /\ UNCHANGED <<files, nextId, nextFile, owner, users, session, browser>>

\* The body of PUT /:testId is not validated: any JSON object.  has is the
\* set of its keys that are not undefined.
Body(has, location, isAnonymous, result) ==
  [has |-> has, location |-> location, isAnonymous |-> isAnonymous, result |-> result,
   userId |-> NULL, testType |-> NULL, imageUrl |-> NoUrl]

UpdateBodies ==
  { Body({}, NULL, FALSE, NULL),
    Body({"location"}, "Clinic", FALSE, NULL),
    Body({"isAnonymous"}, NULL, TRUE, NULL),
    Body({"location", "isAnonymous"}, NULL, FALSE, NULL),
    Body({"result"}, NULL, FALSE, "NEGATIVE"),
    Body({"location", "isAnonymous", "result"}, "Clinic", TRUE, "POSITIVE"),
    [Body({"location", "userId", "testType", "imageUrl"}, "Lab", FALSE, NULL)
       EXCEPT !.userId = "userB", !.testType = "PREGNANCY", !.imageUrl = Url(0)] }

\* an update that passes the whole body on
UpdateDataWholeBody(body) == [f \in body.has |-> body[f]]

\* an update that lets the body name another owner
UpdateDataWithOwner(body) ==
  [f \in body.has \cap {"location", "isAnonymous", "userId"} |-> body[f]]

\* the data of prisma.test.update in updateTest (lines 362-365)
UpdateData(body) ==
  [f \in body.has \cap {"location", "isAnonymous"} |-> body[f]]

\* prisma.test.update and the response (lines 360-372)
UpdateWrite(s) ==
  /\ req[s].op = "update" /\ req[s].pc = "write"
  /\ \E body \in UpdateBodies :
       LET id == req[s].testId
           input == [stage |-> "update", body |-> body]
       IN  IF id \notin DOMAIN tests
             THEN /\ resp' = Fail("update", req[s].user, id,
                                  PrismaClientKnownRequestError("P2025"), input)
                  /\ UNCHANGED <<tests, lastStats>>
             ELSE LET updatedTest == Updated(tests[id], UpdateData(body))
                  IN  /\ tests' = [tests EXCEPT ![id] = updatedTest]
                      /\ lastStats' = NoResponse
                      /\ resp' = Response("update", req[s].user, id, 200, "OK",
                                          updatedTest, input)
  /\ req' = Answered(s)
  /\ UNCHANGED <<files, nextId, nextFile, owner, users, session, browser>>

\* a re-analysis that writes the result and leaves the confidence
ReanalyzeDataResultOnly(mockAnalysis) == [result |-> mockAnalysis.result]

\* the data of prisma.test.update in reanalyzeTest (lines 404-407)
ReanalyzeData(mockAnalysis) ==
  [result |-> mockAnalysis.result, confidence |-> mockAnalysis.confidence]

\* analyzeTestImage, prisma.test.update and the response (lines 400-417)
ReanalyzeWrite(s) ==
  /\ req[s].op = "reanalyze" /\ req[s].pc = "write"
  /\ \E mockAnalysis \in analyzeTestImage :
       LET id == req[s].testId
           input == [stage |-> "reanalyze", analysis |-> mockAnalysis]
       IN  IF id \notin DOMAIN tests
             THEN /\ resp' = Fail("reanalyze", req[s].user, id,
                                  PrismaClientKnownRequestError("P2025"), input)
                  /\ UNCHANGED <<tests, lastStats>>
             ELSE LET updatedTest == Updated(tests[id], ReanalyzeData(mockAnalysis))
                  IN  /\ tests' = [tests EXCEPT ![id] = updatedTest]
                      /\ lastStats' = NoResponse
                      /\ resp' = Response("reanalyze", req[s].user, id, 200, "OK",
                                          updatedTest, input)
  /\ req' = Answered(s)
  /\ UNCHANGED <<files, nextId, nextFile, owner, users, session, browser>>

----------------------------------------------------------------------------
\* Queries on the tests table

Where(userId, testType, result, startDate, endDate) ==
  [userId |-> userId, testType |-> testType, result |-> result,
   startDate |-> startDate, endDate |-> endDate]

\* a row satisfies a where clause; NULL and 0 stand for a condition left out
Matches(row, where) ==
  /\ where.userId = NULL \/ row.userId = where.userId
  /\ where.testType = NULL \/ row.testType = where.testType
  /\ where.result = NULL \/ row.result = where.result
  /\ where.startDate = 0 \/ row.testDate >= where.startDate
  /\ where.endDate = 0 \/ row.testDate <= where.endDate

Matching(where) == {id \in DOMAIN tests : Matches(tests[id], where)}

\* prisma.test.count({ where })
Count(where) == Cardinality(Matching(where))

\* orderBy: { testDate: 'desc' }
RECURSIVE OrderByTestDateDesc(_)
OrderByTestDateDesc(ids) ==
  IF ids = {} THEN <<>>
  ELSE LET first == CHOOSE i \in ids : \A j \in ids : tests[j].testDate <= tests[i].testDate
       IN  <<tests[first]>> \o OrderByTestDateDesc(ids \ {first})

Min(a, b) == IF a <= b THEN a ELSE b

Select(row, fields) == [f \in fields |-> row[f]]

\* prisma.test.findMany({ where, orderBy: { testDate: 'desc' }, skip, take, select })
FindMany(where, skip, take, fields) ==
  LET all == OrderByTestDateDesc(Matching(where))
      page == SubSeq(all, skip + 1, Min(skip + take, Len(all)))
  IN  [i \in 1..Len(page) |-> Select(page[i], fields)]

\* prisma.test.groupBy({ by: ['result', 'testType'], where, _count })
GroupBy(where) ==
  { [result |-> r, testType |-> t,
     count |-> Count([where EXCEPT !.result = r, !.testType = t])] :
      <<r, t>> \in { <<tests[id].result, tests[id].testType>> : id \in Matching(where) } }

\* The clock, new Date(): a row's testDate defaults to now(), the value the
\* next row would get.
Now == nextId

\* A calendar day has TicksPerDay values of the clock.
TicksPerDay == 2

\* toISOString().split('T')[0]: the calendar day of a time, as a day number
IsoDate(time) == time \div TicksPerDay

\* 30 days, adminController.ts line 67
WindowDays == 30

\* today.getTime() - 30 * 24 * 60 * 60 * 1000
ThirtyDaysAgo == Now - WindowDays * TicksPerDay

RECURSIVE Ascending(_)
Ascending(times) ==
  IF times = {} THEN <<>>
  ELSE LET first == CHOOSE t \in times : \A u \in times : t <= u
       IN  <<first>> \o Ascending(times \ {first})

\* where with testDate: time in the place of its conditions on testDate
OnDate(where, time) == [where EXCEPT !.startDate = time, !.endDate = time]

\* prisma.test.groupBy({ by: ['testDate'], where, _count,
\*                        orderBy: { testDate: 'asc' } }): one group per value
\* of the column testDate
GroupByTestDate(where) ==
  LET times == Ascending({tests[id].testDate : id \in Matching(where)})
  IN  [i \in DOMAIN times |->
         [testDate |-> times[i], count |-> Count(OnDate(where, times[i]))]]

----------------------------------------------------------------------------
\* getUserTests (lines 124-195)

Query(page, limit, testType, result, startDate, endDate) ==
  [page |-> page, limit |-> limit, testType |-> testType, result |-> result,
   startDate |-> startDate, endDate |-> endDate]

\* the query strings that requests of ReadSpec carry; validateQuery fills in
\* the defaults page = 1 and limit = 10
Queries ==
  { Query(1, 10, NULL, NULL, 0, 0),
    Query(1, 1, NULL, "POSITIVE", 0, 0) }

\* validateQuery(schemas.queryParams) accepts the query string
\* (validation.ts lines 232-299)
validateQuery(query) ==
  /\ query.page >= 1
  /\ query.limit >= 1 /\ query.limit <= 100
  /\ query.testType \in TestType \cup {NULL}
  /\ query.result \in TestResult \cup {NULL}
  /\ "sortOrder" \in DOMAIN query => query.sortOrder \in {"asc", "desc"}

\* its answer to a query string it does not accept (lines 287-292)
InvalidQuery(op, user, query) ==
  Response(op, user, 0, 400, NULL, NoTest, [stage |-> op, query |-> query])

ListFields ==
  {"id", "testType", "result", "confidence", "imageUrl", "location", "testDate",
   "isAnonymous"}

\* a where clause that leaves the userId out
ListWhereAnyUser(userId, query) ==
  Where(NULL, query.testType, query.result, query.startDate, query.endDate)

\* lines 136-156
ListWhere(userId, query) ==
  Where(userId, query.testType, query.result, query.startDate, query.endDate)

ListFind(userId, query) ==
  FindMany(ListWhere(userId, query), (query.page - 1) * query.limit, query.limit,
           ListFields)

\* pagination whose totalPages is rounded down
PaginationFloor(query, total) ==
  LET totalPages == total \div query.limit
  IN  [page |-> query.page, limit |-> query.limit, total |-> total,
       totalPages |-> totalPages,
       hasNext |-> query.page < totalPages, hasPrev |-> query.page > 1]

\* lines 180-193
Pagination(query, total) ==
  LET totalPages == (total + query.limit - 1) \div query.limit
  IN  [page |-> query.page, limit |-> query.limit, total |-> total,
       totalPages |-> totalPages,
       hasNext |-> query.page < totalPages, hasPrev |-> query.page > 1]

\* Promise.all starts findMany and count together: the table serves them in
\* either order.  The first of the two:
GetUserTestsFirst(s, queries) ==
  /\ Free(s)
  /\ \E u \in users, query \in queries :
       IF ~validateQuery(query)
         THEN resp' = InvalidQuery("list", u, query) /\ UNCHANGED req
         ELSE /\ \/ req' = [req EXCEPT ![s] =
                           [Request("list", "count", u, 0, NoUrl) EXCEPT
                              !.loc = [query |-> query, tests |-> ListFind(u, query)]]]
                 \/ req' = [req EXCEPT ![s] =
                           [Request("list", "find", u, 0, NoUrl) EXCEPT
                              !.loc = [query |-> query,
                                       total |-> Count(ListWhere(u, query))]]]
              /\ resp' = NoResponse
  /\ UNCHANGED <<tests, files, nextId, nextFile, owner, lastStats, users, session, browser>>

\* the second of the two, and the response
GetUserTestsSecond(s) ==
  /\ req[s].op = "list"
  /\ LET u == req[s].user
         query == req[s].loc.query
         page == IF req[s].pc = "find" THEN ListFind(u, query) ELSE req[s].loc.tests
         total == IF req[s].pc = "count" THEN Count(ListWhere(u, query))
                                         ELSE req[s].loc.total
     IN  resp' = Response("list", u, 0, 200, "OK",
                          [tests |-> page, pagination |-> Pagination(query, total)],
                          [stage |-> "list", query |-> query])
  /\ req' = Answered(s)
  /\ UNCHANGED <<tests, files, nextId, nextFile, owner, lastStats, users, session, browser>>

----------------------------------------------------------------------------
\* getUserTestStats (lines 266-338)

RECURSIVE Gcd(_, _)
Gcd(a, b) == IF b = 0 THEN a ELSE Gcd(b, a % b)

\* A rate is kept as the fraction num/den in lowest terms.
Fraction(n, d) == LET g == Gcd(n, d) IN [num |-> n \div g, den |-> d \div g]

\* a rate per thousand
PositivityRatePerMille(positive, total) ==
  IF total > 0 THEN Fraction(positive * 1000, total) ELSE Fraction(0, 1)

\* a rate cut down to a whole number
PositivityRateTruncated(positive, total) ==
  IF total > 0 THEN Fraction((positive * 100) \div total, 1) ELSE Fraction(0, 1)

\* total > 0 ? (positive / total) * 100 : 0
PositivityRate(positive, total) ==
  IF total > 0 THEN Fraction(positive * 100, total) ELSE Fraction(0, 1)

RecentFields == {"id", "testType", "result", "testDate", "location"}

UserWhere(userId) == Where(userId, NULL, NULL, 0, 0)

\* lines 312-324.  forEach visits the groups in the order groupBy returned
\* them, which nothing fixes: resultStats[r] is the count of whichever group
\* of result r came last.
ResultStats(stats) ==
  { rs \in [TestResult -> {0} \cup {g.count : g \in stats}] :
      \A r \in TestResult :
        IF \E g \in stats : g.result = r
          THEN \E g \in stats : g.result = r /\ rs[r] = g.count
          ELSE rs[r] = 0 }

RECURSIVE SumCounts(_)
SumCounts(groups) ==
  IF groups = {} THEN 0
  ELSE LET g == CHOOSE x \in groups : TRUE IN g.count + SumCounts(groups \ {g})

TestTypeStats(stats) ==
  [t \in {g.testType : g \in stats} |-> SumCounts({g \in stats : g.testType = t})]

StatsGroupBy(s) ==
  /\ Free(s)
  /\ \E u \in users :
       req' = [req EXCEPT ![s] =
                 [Request("stats", "total", u, 0, NoUrl) EXCEPT
                    !.loc = [stats |-> GroupBy(UserWhere(u))]]]
  /\ resp' = NoResponse
  /\ UNCHANGED <<tests, files, nextId, nextFile, owner, lastStats, users, session, browser>>

StatsTotal(s) ==
  /\ req[s].op = "stats" /\ req[s].pc = "total"
  /\ req' = [req EXCEPT ![s].pc = "positive",
                        ![s].loc = [stats |-> req[s].loc.stats,
                                    totalTests |-> Count(UserWhere(req[s].user))]]
  /\ resp' = NoResponse
  /\ UNCHANGED <<tests, files, nextId, nextFile, owner, lastStats, users, session, browser>>

StatsPositive(s) ==
  /\ req[s].op = "stats" /\ req[s].pc = "positive"
  /\ req' = [req EXCEPT ![s].pc = "recent",
                        ![s].loc = [stats |-> req[s].loc.stats,
                                    totalTests |-> req[s].loc.totalTests,
                                    positiveTests |->
                                      Count([UserWhere(req[s].user) EXCEPT
                                               !.result = "POSITIVE"])]]
  /\ resp' = NoResponse
  /\ UNCHANGED <<tests, files, nextId, nextFile, owner, lastStats, users, session, browser>>

StatsRecent(s) ==
  /\ req[s].op = "stats" /\ req[s].pc = "recent"
  /\ LET l == req[s].loc
         recentTests == FindMany(UserWhere(req[s].user), 0, 5, RecentFields)
     IN  \E resultStats \in ResultStats(l.stats) :
           /\ resp' = Response("stats", req[s].user, 0, 200, "OK",
                            [totalTests |-> l.totalTests,
                             positiveTests |-> l.positiveTests,
                             positivityRate |-> PositivityRate(l.positiveTests, l.totalTests),
                             resultStats |-> resultStats,
                             testTypeStats |-> TestTypeStats(l.stats),
                             recentTests |-> recentTests],
                            NoInput)
           /\ lastStats' = resp'
  /\ req' = Answered(s)
  /\ UNCHANGED <<tests, files, nextId, nextFile, owner, users, session, browser>>

----------------------------------------------------------------------------
\* getDashboardStats (adminController.ts lines 64-209); todayTests is left
\* out of the response

DashboardCounts == {"totalTests", "totalUsers", "positiveTests"}
AnyWhere == Where(NULL, NULL, NULL, 0, 0)

DashboardStart(s) ==
  /\ Free(s)
  /\ req' = [req EXCEPT ![s] = Request("dashboard", "counts", "admin", 0, NoUrl)]
  /\ resp' = NoResponse
  /\ UNCHANGED <<tests, files, nextId, nextFile, owner, lastStats, users, session, browser>>

\* lines 70-85: Promise.all starts the counts together, each is a query of
\* its own and they are served in any order
DashboardCount(s) ==
  /\ req[s].op = "dashboard" /\ req[s].pc = "counts"
  /\ \E k \in DashboardCounts \ DOMAIN req[s].loc :
       LET n == IF k = "totalTests" THEN Count(AnyWhere)
                ELSE IF k = "totalUsers" THEN Cardinality(users)
                ELSE Count([AnyWhere EXCEPT !.result = "POSITIVE"])
           loc == (k :> n) @@ req[s].loc
       IN  req' = [req EXCEPT ![s].loc = loc,
                              ![s].pc = IF DOMAIN loc = DashboardCounts
                                          THEN "byType" ELSE "counts"]
  /\ resp' = NoResponse
  /\ UNCHANGED <<tests, files, nextId, nextFile, owner, lastStats, users, session, browser>>

\* lines 88-98: groupBy testType
TestsByType(where) ==
  [t \in {tests[id].testType : id \in Matching(where)} |->
     Count([where EXCEPT !.testType = t])]

DashboardByType(s) ==
  /\ req[s].op = "dashboard" /\ req[s].pc = "byType"
  /\ req' = [req EXCEPT ![s].pc = "recent",
                        ![s].loc = [totalTests |-> req[s].loc.totalTests,
                                    totalUsers |-> req[s].loc.totalUsers,
                                    positiveTests |-> req[s].loc.positiveTests,
                                    testsByType |-> TestsByType(AnyWhere)]]
  /\ resp' = NoResponse
  /\ UNCHANGED <<tests, files, nextId, nextFile, owner, lastStats, users, session, browser>>

AllFields ==
  {"id", "userId", "testType", "result", "confidence", "imageUrl", "latitude",
   "longitude", "location", "isAnonymous", "testDate"}

\* The users table (schema.prisma, model User): the row of a user id
User(id) == [id |-> id, name |-> <<"name of", id>>, email |-> <<"email of", id>>]

\* include: { user: { select } } on the rows of a findMany
IncludeUser(rows, fields) ==
  [i \in DOMAIN rows |->
     [f \in DOMAIN rows[i] \cup {"user"} |->
        IF f = "user" THEN Select(User(rows[i].userId), fields) ELSE rows[i][f]]]

\* lines 101-115
DashboardRecent(s) ==
  /\ req[s].op = "dashboard" /\ req[s].pc = "recent"
  /\ req' = [req EXCEPT
               ![s].pc = "locations",
               ![s].loc = ("recentTests" :>
                             IncludeUser(FindMany(AnyWhere, 0, 10, AllFields),
                                         {"id", "name", "email"}))
                          @@ req[s].loc]
  /\ resp' = NoResponse
  /\ UNCHANGED <<tests, files, nextId, nextFile, owner, lastStats, users, session, browser>>

\* lines 118-131: the rows whose latitude and longitude are both not null
TestsWithLocation ==
  {id \in DOMAIN tests : tests[id].latitude # NoFloat /\ tests[id].longitude # NoFloat}

\* line 137: test.location || `${test.latitude},${test.longitude}`, a string,
\* kept as a triple: the label, or the two numbers of the template
LocationKey(test) ==
  IF test.location # NULL /\ test.location # ""
    THEN <<test.location, NoFloat, NoFloat>>
    ELSE <<"", test.latitude, test.longitude>>

\* lines 134-154.  The entry of a key takes the coordinates of the row that
\* forEach meets first, and findMany without orderBy fixes no order: first
\* names that row for every key.
GeographicData(ids, first) ==
  [key \in DOMAIN first |->
     LET cluster == {id \in ids : LocationKey(tests[id]) = key}
         positive == Cardinality({id \in cluster : tests[id].result = "POSITIVE"})
     IN  [location |-> key,
          coordinates |-> [lat |-> tests[first[key]].latitude,
                           lng |-> tests[first[key]].longitude],
          testCount |-> Cardinality(cluster),
          positiveCount |-> positive,
          positivityRate |-> PositivityRate(positive, Cardinality(cluster))]]

DashboardLocations(s) ==
  /\ req[s].op = "dashboard" /\ req[s].pc = "locations"
  /\ LET ids == TestsWithLocation
         keys == {LocationKey(tests[id]) : id \in ids}
     IN  \E first \in {f \in [keys -> ids] :
                         \A key \in keys : LocationKey(tests[f[key]]) = key} :
           req' = [req EXCEPT
                     ![s].pc = "trend",
                     ![s].loc = ("geographicData" :> GeographicData(ids, first))
                                @@ req[s].loc]
  /\ resp' = NoResponse
  /\ UNCHANGED <<tests, files, nextId, nextFile, owner, lastStats, users, session, browser>>

\* lines 193-208
DashboardResponse(l) ==
  Response("dashboard", "admin", 0, 200, "OK",
           [totalTests |-> l.totalTests,
            totalUsers |-> l.totalUsers,
            positivityRate |-> PositivityRate(l.positiveTests, l.totalTests),
            testsByType |-> l.testsByType,
            recentTests |-> l.recentTests,
            geographicData |-> l.geographicData,
            trendData |-> l.trendData],
           [stage |-> "dashboard", now |-> l.now])

\* lines 157-173: groupBy testDate over the last 30 days
DashboardTrend(s) ==
  /\ req[s].op = "dashboard" /\ req[s].pc = "trend"
  /\ LET trendData == GroupByTestDate([AnyWhere EXCEPT !.startDate = ThirtyDaysAgo])
         loc == [trendData |-> <<>>, pending |-> trendData, now |-> Now] @@ req[s].loc
     IN  IF trendData = <<>>
           THEN resp' = DashboardResponse(loc) /\ req' = Answered(s)
           ELSE /\ req' = [req EXCEPT ![s].pc = "positive", ![s].loc = loc]
                /\ resp' = NoResponse
  /\ UNCHANGED <<tests, files, nextId, nextFile, owner, lastStats, users, session, browser>>

\* lines 176-191: one count of POSITIVE rows per group; the counts are
\* queries of their own, taken here in the order of the groups; and the
\* response when the last of them is in
DashboardTrendPositive(s) ==
  /\ req[s].op = "dashboard" /\ req[s].pc = "positive"
  /\ LET item == Head(req[s].loc.pending)
         positive == Count(OnDate([AnyWhere EXCEPT !.result = "POSITIVE"],
                                  item.testDate))
         loc == [trendData |-> Append(req[s].loc.trendData,
                                      [date |-> IsoDate(item.testDate),
                                       tests |-> item.count,
                                       positive |-> positive]),
                 pending |-> Tail(req[s].loc.pending)] @@ req[s].loc
     IN  IF loc.pending = <<>>
           THEN resp' = DashboardResponse(loc) /\ req' = Answered(s)
           ELSE /\ req' = [req EXCEPT ![s].loc = loc]
                /\ resp' = NoResponse
  /\ UNCHANGED <<tests, files, nextId, nextFile, owner, lastStats, users, session, browser>>

----------------------------------------------------------------------------
\* getTestStatistics (adminController.ts lines 344-465); requests of the
\* model carry no location filter

StatisticsQueries ==
  { Query(1, 10, NULL, NULL, 0, 0),
    Query(1, 10, "COVID_19", NULL, 0, 0),
    Query(1, 10, NULL, NULL, 2, 4) }

\* lines 347-368
StatisticsWhere(query) ==
  Where(NULL, query.testType, NULL, query.startDate, query.endDate)

\* groupBy result, lines 371-377
ResultGroups(where) ==
  { [result |-> r, count |-> Count([where EXCEPT !.result = r])] :
      r \in {tests[id].result : id \in Matching(where)} }

StatisticsResults(s) ==
  /\ Free(s)
  /\ \E query \in StatisticsQueries :
       req' = [req EXCEPT ![s] =
                 [Request("statistics", "byType", "admin", 0, NoUrl) EXCEPT
                    !.loc = [query |-> query,
                             resultStats |-> ResultGroups(StatisticsWhere(query))]]]
  /\ resp' = NoResponse
  /\ UNCHANGED <<tests, files, nextId, nextFile, owner, lastStats, users, session, browser>>

\* lines 428-442: every result has one group at most
ResultStatsFormatted(resultStats) ==
  [r \in TestResult |->
     IF \E g \in resultStats : g.result = r
       THEN (CHOOSE g \in resultStats : g.result = r).count
       ELSE 0]

\* lines 380-386
StatisticsByType(s) ==
  /\ req[s].op = "statistics" /\ req[s].pc = "byType"
  /\ req' = [req EXCEPT
               ![s].pc = "daily",
               ![s].loc = ("testTypeStats" :> TestsByType(StatisticsWhere(req[s].loc.query)))
                          @@ req[s].loc]
  /\ resp' = NoResponse
  /\ UNCHANGED <<tests, files, nextId, nextFile, owner, lastStats, users, session, browser>>

\* lines 427-464
StatisticsResponse(l) ==
  LET total == SumCounts(l.resultStats)
      formatted == ResultStatsFormatted(l.resultStats)
      positive == formatted["POSITIVE"]
  IN  Response("statistics", "admin", 0, 200, "OK",
               [total |-> total,
                positive |-> positive,
                negative |-> formatted["NEGATIVE"],
                invalid |-> formatted["INVALID"],
                positivityRate |-> PositivityRate(positive, total),
                byTestType |-> l.testTypeStats,
                byDate |-> l.byDate],
               [stage |-> "statistics", query |-> l.query, now |-> l.now])

\* lines 394-399: { ...where, testDate: { gte: thirtyDaysAgo } }, which
\* takes the place of the testDate conditions of the request
DailyWhere(query) ==
  [StatisticsWhere(query) EXCEPT !.startDate = ThirtyDaysAgo, !.endDate = 0]

\* lines 389-406: groupBy testDate over the last 30 days
StatisticsDaily(s) ==
  /\ req[s].op = "statistics" /\ req[s].pc = "daily"
  /\ LET dailyStats == GroupByTestDate(DailyWhere(req[s].loc.query))
         loc == [byDate |-> <<>>, pending |-> dailyStats, now |-> Now] @@ req[s].loc
     IN  IF dailyStats = <<>>
           THEN resp' = StatisticsResponse(loc) /\ req' = Answered(s)
           ELSE /\ req' = [req EXCEPT ![s].pc = "positive", ![s].loc = loc]
                /\ resp' = NoResponse
  /\ UNCHANGED <<tests, files, nextId, nextFile, owner, lastStats, users, session, browser>>

\* lines 409-425: one count of POSITIVE rows per group, taken here in the
\* order of the groups, and the response when the last of them is in
StatisticsDailyPositive(s) ==
  /\ req[s].op = "statistics" /\ req[s].pc = "positive"
  /\ LET stat == Head(req[s].loc.pending)
         positiveCount ==
           Count(OnDate([StatisticsWhere(req[s].loc.query) EXCEPT
                           !.result = "POSITIVE"], stat.testDate))
         loc == [byDate |-> Append(req[s].loc.byDate,
                                   [date |-> IsoDate(stat.testDate),
                                    count |-> stat.count,
                                    positive |-> positiveCount]),
                 pending |-> Tail(req[s].loc.pending)] @@ req[s].loc
     IN  IF loc.pending = <<>>
           THEN resp' = StatisticsResponse(loc) /\ req' = Answered(s)
           ELSE /\ req' = [req EXCEPT ![s].loc = loc]
                /\ resp' = NoResponse
  /\ UNCHANGED <<tests, files, nextId, nextFile, owner, lastStats, users, session, browser>>

----------------------------------------------------------------------------
\* getAllTests (adminController.ts lines 271-341); requests of the model
\* carry no location filter

AllWhere(query) ==
  Where(NULL, query.testType, query.result, query.startDate, query.endDate)

\* lines 305-322; age and gender of the user are left out
AllFind(query) ==
  IncludeUser(FindMany(AllWhere(query), (query.page - 1) * query.limit, query.limit,
                       AllFields),
              {"id", "name", "email"})

\* Promise.all starts findMany and count together; the first of the two:
GetAllTestsFirst(s, queries) ==
  /\ Free(s)
  /\ \E query \in queries :
       IF ~validateQuery(query)
         THEN resp' = InvalidQuery("all", "admin", query) /\ UNCHANGED req
         ELSE /\ \/ req' = [req EXCEPT ![s] =
                           [Request("all", "count", "admin", 0, NoUrl) EXCEPT
                              !.loc = [query |-> query, tests |-> AllFind(query)]]]
                 \/ req' = [req EXCEPT ![s] =
                           [Request("all", "find", "admin", 0, NoUrl) EXCEPT
                              !.loc = [query |-> query,
                                       total |-> Count(AllWhere(query))]]]
              /\ resp' = NoResponse
  /\ UNCHANGED <<tests, files, nextId, nextFile, owner, lastStats, users, session, browser>>

\* the second of the two, and the response (lines 326-340)
GetAllTestsSecond(s) ==
  /\ req[s].op = "all"
  /\ LET query == req[s].loc.query
         page == IF req[s].pc = "find" THEN AllFind(query) ELSE req[s].loc.tests
         total == IF req[s].pc = "count" THEN Count(AllWhere(query))
                                         ELSE req[s].loc.total
     IN  resp' = Response("all", "admin", 0, 200, "OK",
                          [tests |-> page, pagination |-> Pagination(query, total)],
                          [stage |-> "all", query |-> query])
  /\ req' = Answered(s)
  /\ UNCHANGED <<tests, files, nextId, nextFile, owner, lastStats, users, session, browser>>

----------------------------------------------------------------------------
\* exportData (adminController.ts lines 468-568), type tests, format csv

\* the fields of a CSV row, lines 540-551; the age and gender of the user
\* are left out
CsvRow(item) ==
  << item.id, item.user.name, item.user.email, item.testType, item.result,
     item.confidence, IF item.location = NULL THEN "" ELSE item.location,
     item.testDate >>

\* the positions of the header 'User Name' and 'User Email', lines 528-530
CsvUserName == 2
CsvUserEmail == 3

ExportData(s) ==
  /\ Free(s)
  /\ \E query \in {Query(1, 10, NULL, NULL, 0, 0), Query(1, 10, NULL, NULL, 2, 0)} :
       LET where == Where(NULL, NULL, NULL, query.startDate, query.endDate)
           data == IncludeUser(FindMany(where, 0, Count(where), AllFields),
                               {"name", "email"})
       IN  resp' = Response("export", "admin", 0, 200, "OK",
                            [rows |-> [i \in DOMAIN data |-> CsvRow(data[i])],
                             ids |-> [i \in DOMAIN data |-> data[i].id]],
                            [stage |-> "export", query |-> query])
  /\ UNCHANGED <<tests, files, nextId, nextFile, owner, req, lastStats, users, session, browser>>

----------------------------------------------------------------------------
\* The admins table (schema.prisma, model Admin) and the admin routes

Admin(id, role, permissions) == [id |-> id, role |-> role, permissions |-> permissions]

Admins ==
  { Admin("admin", "ADMIN", {}),
    Admin("officer", "ADMIN", {"delete_users"}),
    Admin("root", "SUPER_ADMIN", {}) }

AdminOf(id) == CHOOSE a \in Admins : a.id = id

\* requirePermission(permission) for the admin authenticateAdmin attached:
\* the error it answers with, or NoError when it calls next()
requirePermission(permission, admin) ==
  IF permission \notin admin.permissions /\ admin.role # "SUPER_ADMIN"
    THEN AppError(403, "INSUFFICIENT_PERMISSIONS")
    ELSE NoError

\* DELETE /users/:userId (routes/admin.ts line 29): authenticateAdmin, then
\* deleteUser up to its findUnique (adminController.ts lines 571-580)
DeleteUserFind(s) ==
  /\ Free(s)
  /\ \E admin \in Admins, userId \in Users :
       IF userId \notin users
         THEN /\ resp' = Fail("deleteUser", admin.id, 0, AppError(404, NULL),
                              [stage |-> "deleteUser", userId |-> userId])
              /\ UNCHANGED req
         ELSE /\ req' = [req EXCEPT ![s] =
                          [Request("deleteUser", "write", admin.id, 0, NoUrl) EXCEPT
                             !.loc = [userId |-> userId]]]
              /\ resp' = NoResponse
  /\ UNCHANGED <<tests, files, nextId, nextFile, owner, lastStats, users, session, browser>>

\* prisma.user.delete and the response (lines 582-589); the tests and the
\* refresh tokens of the user go with it (schema.prisma lines 43 and 72,
\* onDelete: Cascade)
DeleteUserWrite(s) ==
  /\ req[s].op = "deleteUser" /\ req[s].pc = "write"
  /\ LET userId == req[s].loc.userId
         input == [stage |-> "deleteUser", userId |-> userId]
     IN  IF userId \notin users
           THEN /\ resp' = Fail("deleteUser", req[s].user, 0,
                                PrismaClientKnownRequestError("P2025"), input)
                /\ UNCHANGED <<tests, users, lastStats, refreshTokens>>
           ELSE /\ users' = users \ {userId}
                /\ tests' = [id \in {i \in DOMAIN tests : tests[i].userId # userId}
                               |-> tests[id]]
                /\ refreshTokens' = {t \in refreshTokens : t.userId # userId}
                /\ lastStats' = NoResponse
                /\ resp' = Response("deleteUser", req[s].user, 0, 200, "OK",
                                    NoTest, input)
  /\ req' = Answered(s)
  /\ UNCHANGED <<files, nextId, nextFile, owner, nextToken, clock, redeemed, issued,
               browser>>

----------------------------------------------------------------------------
\* res.json: the response leaves the server
Deliver ==
  /\ resp # NoResponse
  /\ resp' = NoResponse
  /\ UNCHANGED <<tests, files, nextId, nextFile, owner, req, lastStats, users, session, browser>>

\* the handlers that write, and getTestById
Handle(s) ==
    \/ CreateIntake(s)
    \/ CreateProcess(s)
    \/ CreateWrite(s)
    \/ GetTestById(s)
    \/ DeleteFind(s)
    \/ DeleteWrite(s)
    \/ UpdateFind(s)
    \/ UpdateWrite(s)
    \/ ReanalyzeFind(s)
    \/ ReanalyzeWrite(s)

Next ==
  \/ resp = NoResponse /\ \E s \in Slots : Handle(s)
  \/ Deliver

Spec == Init /\ [][Next]_vars

\* the handlers that read, among submissions and re-analyses
Read(s) ==
    \/ CreateIntake(s)
    \/ CreateProcess(s)
    \/ CreateWrite(s)
    \/ ReanalyzeFind(s)
    \/ ReanalyzeWrite(s)
    \/ GetTestById(s)
    \/ GetUserTestsFirst(s, Queries)
    \/ GetUserTestsSecond(s)
    \/ StatsGroupBy(s)
    \/ StatsTotal(s)
    \/ StatsPositive(s)
    \/ StatsRecent(s)

ReadNext ==
  \/ resp = NoResponse /\ \E s \in Slots : Read(s)
  \/ Deliver

ReadSpec == Init /\ [][ReadNext]_vars

----------------------------------------------------------------------------
\* The statistics and the admin views over a table that does not change:
\* any table of up to MaxPositive, MaxNegative and MaxOther rows per result
\* of userA, and up to MaxOther POSITIVE rows of userB, the test types
\* alternating and the first row of each block anonymous.

ConfidenceOf(result) == (CHOOSE m \in mockResults : m.result = result).confidence

Block(userId, result, n) ==
  [i \in 1..n |->
     [id |-> 0, userId |-> userId,
      testType |-> IF i % 2 = 1 THEN "COVID_19" ELSE "PREGNANCY",
      result |-> result, confidence |-> ConfidenceOf(result),
      imageUrl |-> NoUrl, latitude |-> NoFloat, longitude |-> NoFloat,
      location |-> NULL, isAnonymous |-> (i = 1),
      testDate |-> 0]]

Table(np, nn, ni, nc, nb) ==
  LET rows == Block("userA", "POSITIVE", np) \o Block("userA", "NEGATIVE", nn)
                \o Block("userB", "POSITIVE", nb) \o Block("userA", "INVALID", ni)
                \o Block("userA", "INCONCLUSIVE", nc)
  IN  [i \in 1..Len(rows) |->
         [rows[i] EXCEPT !.id = i, !.testDate = i, !.imageUrl = Url(i)]]

StatsInit ==
  /\ \E np \in 0..MaxPositive, nn \in 0..MaxNegative,
        ni \in 0..MaxOther, nc \in 0..MaxOther, nb \in 0..MaxOther :
       tests = Table(np, nn, ni, nc, nb)
  /\ files = DOMAIN tests
  /\ nextId = Cardinality(DOMAIN tests) + 1
  /\ nextFile = nextId
  /\ owner = [i \in DOMAIN tests |-> tests[i].userId]
  /\ req = [s \in Slots |-> Idle]
  /\ resp = NoResponse
  /\ lastStats = NoResponse
  /\ users = Users
  /\ SessionInit /\ BrowserInit

Statistics(s) ==
    \/ StatsGroupBy(s)
    \/ StatsTotal(s)
    \/ StatsPositive(s)
    \/ StatsRecent(s)
    \/ DashboardStart(s)
    \/ DashboardCount(s)
    \/ DashboardByType(s)
    \/ DashboardRecent(s)
    \/ DashboardLocations(s)
    \/ DashboardTrend(s)
    \/ DashboardTrendPositive(s)
    \/ StatisticsResults(s)
    \/ StatisticsByType(s)
    \/ StatisticsDaily(s)
    \/ StatisticsDailyPositive(s)
    \/ GetAllTestsFirst(s, Queries)
    \/ GetAllTestsSecond(s)
    \/ ExportData(s)

StatsNext ==
  \/ resp = NoResponse /\ Statistics("c1")
  \/ Deliver

StatsSpec == StatsInit /\ [][StatsNext]_vars

\* user management by the admins, among reads of the users
Manage(s) ==
    \/ DeleteUserFind(s)
    \/ DeleteUserWrite(s)
    \/ GetTestById(s)

AdminNext ==
  \/ resp = NoResponse /\ \E s \in Slots : Manage(s)
  \/ Deliver

AdminSpec == StatsInit /\ [][AdminNext]_vars

----------------------------------------------------------------------------
\* The lists over a table that does not change: up to MaxListed POSITIVE
\* rows of userA among rows of other results and of userB.

MaxListed == 5

\* a query string with the sortBy and sortOrder that schemas.queryParams lets
\* through (validation.ts lines 244-250)
WithSort(query, sortBy, sortOrder) ==
  [f \in DOMAIN query \cup {"sortBy", "sortOrder"} |->
     IF f = "sortBy" THEN sortBy ELSE IF f = "sortOrder" THEN sortOrder ELSE query[f]]

ListQueries ==
  { WithSort(Query(1, 10, NULL, NULL, 0, 0), NULL, "desc"),
    WithSort(Query(1, 2, NULL, "POSITIVE", 0, 0), "confidence", "desc"),
    WithSort(Query(1, 10, NULL, NULL, 0, 0), "confidence", "desc"),
    WithSort(Query(1, 10, NULL, NULL, 0, 0), "date", "asc"),
    WithSort(Query(2, 2, NULL, NULL, 0, 0), NULL, "desc"),
    WithSort(Query(3, 2, NULL, "POSITIVE", 0, 0), NULL, "desc"),
    WithSort(Query(4, 2, NULL, NULL, 0, 0), NULL, "desc"),
    WithSort(Query(2, 1, "COVID_19", NULL, 0, 0), NULL, "desc"),
    WithSort(Query(1, 3, "PREGNANCY", "POSITIVE", 2, 0), NULL, "desc"),
    WithSort(Query(1, 2, NULL, NULL, 2, 4), NULL, "desc"),
    WithSort(Query(1, 10, NULL, NULL, 5, 3), NULL, "desc"),
    WithSort(Query(1, 101, NULL, NULL, 0, 0), NULL, "desc"),
    WithSort(Query(0, 10, NULL, NULL, 0, 0), NULL, "desc") }

ListInit ==
  /\ \E np \in 0..MaxListed, nn \in 0..MaxOther,
        ni \in 0..MaxOther, nb \in 0..MaxOther :
       tests = Table(np, nn, ni, 0, nb)
  /\ files = DOMAIN tests
  /\ nextId = Cardinality(DOMAIN tests) + 1
  /\ nextFile = nextId
  /\ owner = [i \in DOMAIN tests |-> tests[i].userId]
  /\ req = [s \in Slots |-> Idle]
  /\ resp = NoResponse
  /\ lastStats = NoResponse
  /\ users = Users
  /\ SessionInit /\ BrowserInit

Lists(s) ==
    \/ GetUserTestsFirst(s, ListQueries)
    \/ GetUserTestsSecond(s)
    \/ GetAllTestsFirst(s, ListQueries)
    \/ GetAllTestsSecond(s)

ListNext ==
  \/ resp = NoResponse /\ Lists("c1")
  \/ Deliver

ListSpec == ListInit /\ [][ListNext]_vars

----------------------------------------------------------------------------
\* The weekly job of server.ts lines 137-146 among the requests of Spec

\* the files that requests in flight have written
InFlightFiles == {req[s].imageUrl[2] : s \in {t \in Slots : req[t].imageUrl # NoUrl}}

\* cleanupOldImages(30) (validation.ts lines 819-843): every file of the
\* directory whose mtime is more than 30 days back is unlinked.  File names
\* grow with the time of writing; cutoff is the first name that is not yet
\* 30 days old when the job runs, and the files of requests in flight are
\* younger than that.
CleanupOldImages ==
  /\ \E cutoff \in 1..nextFile :
       /\ \A f \in InFlightFiles : f >= cutoff
       /\ files' = {f \in files : f >= cutoff}
  /\ UNCHANGED <<tests, nextId, nextFile, owner, req, resp, lastStats, users, session, browser>>

CleanupNext ==
  \/ resp = NoResponse /\ \E s \in Slots : Handle(s)
  \/ resp = NoResponse /\ CleanupOldImages
  \/ Deliver

CleanupSpec == Init /\ [][CleanupNext]_vars

----------------------------------------------------------------------------
\* Submissions whose bodies carry coordinates, among reads of the rows

Submit(s) ==
    \/ CreateIntake(s)
    \/ CreateProcess(s)
    \/ CreateWriteOf(s, BodyCoordinates)
    \/ GetTestById(s)

SubmitNext ==
  \/ resp = NoResponse /\ \E s \in Slots : Submit(s)
  \/ Deliver

SubmitSpec == Init /\ [][SubmitNext]_vars

----------------------------------------------------------------------------
\* The dashboard and the statistics over a table that does not change: up to
\* MaxPlaced rows of userA, each at any of Places and POSITIVE or NEGATIVE;
\* the first rows were created on one calendar day at different times, the
\* last one long before the 30 days of the trend.

MaxPlaced == 3

Place(location, latitude, longitude) ==
  [location |-> location, latitude |-> latitude, longitude |-> longitude]

Places ==
  { Place(NULL, NoFloat, NoFloat),
    Place("Clinic", NoFloat, NoFloat),
    Place(NULL, 45, -122),
    Place("Clinic", 45, -122),
    Place("Clinic", 10, 10) }

PlacedTime(i) == IF i = MaxPlaced THEN 1 ELSE 99 + i

Placed(places, results) ==
  [i \in DOMAIN places |->
     [id |-> i, userId |-> "userA",
      testType |-> IF i % 2 = 1 THEN "COVID_19" ELSE "PREGNANCY",
      result |-> results[i], confidence |-> ConfidenceOf(results[i]),
      imageUrl |-> Url(i), latitude |-> places[i].latitude,
      longitude |-> places[i].longitude, location |-> places[i].location,
      isAnonymous |-> FALSE, testDate |-> PlacedTime(i)]]

BoardInit ==
  /\ \E n \in 0..MaxPlaced :
       \E places \in [1..n -> Places], results \in [1..n -> {"POSITIVE", "NEGATIVE"}] :
         tests = Placed(places, results)
  /\ files = DOMAIN tests
  /\ nextId = 100 + MaxPlaced
  /\ nextFile = nextId
  /\ owner = [i \in DOMAIN tests |-> tests[i].userId]
  /\ req = [s \in Slots |-> Idle]
  /\ resp = NoResponse
  /\ lastStats = NoResponse
  /\ users = Users
  /\ SessionInit /\ BrowserInit

Board(s) ==
    \/ DashboardStart(s)
    \/ DashboardCount(s)
    \/ DashboardByType(s)
    \/ DashboardRecent(s)
    \/ DashboardLocations(s)
    \/ DashboardTrend(s)
    \/ DashboardTrendPositive(s)
    \/ StatisticsResults(s)
    \/ StatisticsByType(s)
    \/ StatisticsDaily(s)
    \/ StatisticsDailyPositive(s)

BoardNext ==
  \/ resp = NoResponse /\ Board("c1")
  \/ Deliver

BoardSpec == BoardInit /\ [][BoardNext]_vars

----------------------------------------------------------------------------
\* Sessions: controllers/authController.ts, config/jwt.ts, authenticateUser

AccessExpiresIn == 900          \* expiresIn: '15m', in seconds
RefreshExpiresIn == 604800      \* expiresIn: '7d', in seconds
JWT_SECRET == "JWT_SECRET"
JWT_REFRESH_SECRET == "JWT_REFRESH_SECRET"

\* The moments the model watches: the second the first session starts in,
\* the next second, and the seconds after each kind of token has expired.
Moments == {0, 1, AccessExpiresIn, RefreshExpiresIn + 1}

\* a property of a JavaScript object: undefined when the object has none
Field(object, name) == IF name \in DOMAIN object THEN object[name] ELSE NULL

Email(userId) == <<userId, "@example.com">>

\* the payloads the auth controller signs, and the TokenPayload of
\* types/index.ts that generateTokens signs
AccessPayload(userId) == [userId |-> userId, email |-> Email(userId), role |-> "USER"]
RefreshPayload(userId) == [userId |-> userId, type |-> "refresh"]
TokenPayload(id) == [id |-> id, email |-> Email(id), role |-> "USER"]

\* jwt.sign(payload, secret, { expiresIn }): HS256 is deterministic, so the
\* token string is a function of the payload, the secret and iat, the
\* second it is signed in.  The model keeps what the string encodes.
sign(payload, secret, expiresIn, now) ==
  [payload |-> payload, secret |-> secret, iat |-> now, exp |-> now + expiresIn]

\* jwt.verify(token, secret): "ok", or the name of the error it throws
verify(token, secret, now) ==
  IF token.secret # secret THEN "JsonWebTokenError"
  ELSE IF now >= token.exp THEN "TokenExpiredError"
  ELSE "ok"

\* the two jwt.sign calls of register, login and refreshToken
Tokens(userId, now) ==
  [accessToken |-> sign(AccessPayload(userId), JWT_SECRET, AccessExpiresIn, now),
   refreshToken |-> sign(RefreshPayload(userId), JWT_REFRESH_SECRET,
                         RefreshExpiresIn, now)]

\* an access token whose payload names the user by id: what the requests of
\* the test routes above present.  No handler of the repository signs one
\* for a user (adminLogin signs the id of an admin).
IdTokens == {sign(TokenPayload(u), JWT_SECRET, AccessExpiresIn, clock) : u \in Users}

\* what a client can send as its Bearer token
Bearers ==
  {NoToken} \cup IdTokens \cup {t \in issued : t.secret = JWT_SECRET}

\* what a client can send as the refreshToken of a body
BodyRefreshTokens ==
  {NoToken} \cup {t \in issued : t.secret = JWT_REFRESH_SECRET}

Authenticated(user) == [error |-> "none", user |-> user]
Unauthorized(error) == [error |-> error, user |-> [id |-> NULL]]

\* authenticateUser (validation.ts lines 470-555): the user it attaches to
\* the request, or the error code of its 401.  findUnique({ where: { id:
\* undefined } }) throws, which the catch answers with AUTH_FAILED.
authenticateUser(token) ==
  IF token = NoToken THEN Unauthorized("MISSING_TOKEN")
  ELSE IF verify(token, JWT_SECRET, clock) = "TokenExpiredError"
    THEN Unauthorized("TOKEN_EXPIRED")
  ELSE IF verify(token, JWT_SECRET, clock) # "ok" THEN Unauthorized("INVALID_TOKEN")
  ELSE IF Field(token.payload, "id") = NULL THEN Unauthorized("AUTH_FAILED")
  ELSE IF Field(token.payload, "id") \notin users THEN Unauthorized("USER_NOT_FOUND")
  ELSE Authenticated([id |-> token.payload.id])

\* the answers of the auth controller carry the tokens, or none
Session(op, user, status, code, tokens, input) ==
  Response(op, user, 0, status, code, tokens, input)

\* prisma.refreshToken.create and the response that follows: the row is
\* refused for a user that does not exist (P2003) and for a token a row
\* already holds (token is @unique, P2002); the handler's catch answers 500.
StoreToken(op, userId, tokens, expiresAt, status, input) ==
  IF ~ForeignKey(userId) \/ \E t \in refreshTokens : t.token = tokens.refreshToken
    THEN /\ resp' = Session(op, userId, 500, "INTERNAL", NoTokens, input)
         /\ UNCHANGED <<refreshTokens, nextToken, issued>>
    ELSE /\ refreshTokens' = refreshTokens \cup
              { [id |-> nextToken, token |-> tokens.refreshToken,
                 userId |-> userId, expiresAt |-> expiresAt] }
         /\ nextToken' = nextToken + 1
         /\ issued' = issued \cup {tokens.accessToken, tokens.refreshToken}
         /\ resp' = Session(op, userId, status, "OK", tokens, input)

MaxSessions == 3      \* rows the refresh_tokens table hands out in a behaviour

\* POST /register up to prisma.user.create and the two jwt.sign calls
\* (part_007 lines 26-100).  A user id stands for the email address too.
RegisterCreate(s) ==
  /\ Free(s)
  /\ nextToken <= MaxSessions
  /\ \E userId \in Users :
       LET input == [stage |-> "register", userId |-> userId]
       IN  IF userId \in users
             THEN /\ resp' = Session("register", userId, 400, "EXISTS", NoTokens, input)
                  /\ UNCHANGED <<req, users>>
             ELSE /\ users' = users \cup {userId}
                  /\ req' = [req EXCEPT ![s] =
                       [Request("register", "store", userId, 0, NoUrl) EXCEPT
                          !.loc = [tokens |-> Tokens(userId, clock),
                                   expiresAt |-> clock + RefreshExpiresIn,
                                   input |-> input]]]
                  /\ resp' = NoResponse
  /\ UNCHANGED <<tests, files, nextId, nextFile, owner, lastStats, session, browser>>

\* prisma.refreshToken.create of register and the 201 (lines 102-125)
RegisterStore(s) ==
  /\ req[s].op = "register" /\ req[s].pc = "store"
  /\ StoreToken("register", req[s].user, req[s].loc.tokens, req[s].loc.expiresAt,
                201, req[s].loc.input)
  /\ req' = Answered(s)
  /\ UNCHANGED <<tests, files, nextId, nextFile, owner, lastStats, users, clock,
                 redeemed, browser>>

\* POST /login up to the two jwt.sign calls (lines 148-210): findUnique by
\* email, bcrypt.compare, the isVerified check (register stores true)
LoginSign(s) ==
  /\ Free(s)
  /\ nextToken <= MaxSessions
  /\ \E userId \in Users, isPasswordValid \in BOOLEAN :
       LET input == [stage |-> "login", userId |-> userId]
       IN  IF userId \notin users \/ ~isPasswordValid
             THEN /\ resp' = Session("login", userId, 401, "INVALID", NoTokens, input)
                  /\ UNCHANGED req
             ELSE /\ req' = [req EXCEPT ![s] =
                       [Request("login", "store", userId, 0, NoUrl) EXCEPT
                          !.loc = [tokens |-> Tokens(userId, clock),
                                   expiresAt |-> clock + RefreshExpiresIn,
                                   input |-> input]]]
                  /\ resp' = NoResponse
  /\ UNCHANGED <<tests, files, nextId, nextFile, owner, lastStats, users, session,
                 browser>>

\* prisma.refreshToken.create of login and the 200 (lines 212-234)
LoginStore(s) ==
  /\ req[s].op = "login" /\ req[s].pc = "store"
  /\ StoreToken("login", req[s].user, req[s].loc.tokens, req[s].loc.expiresAt,
                200, req[s].loc.input)
  /\ req' = Answered(s)
  /\ UNCHANGED <<tests, files, nextId, nextFile, owner, lastStats, users, clock,
                 redeemed, browser>>

\* findFirst({ where: { token, userId, expiresAt: { gt: new Date() } } })
StoredTokens(token, userId) ==
  {t \in refreshTokens : t.token = token /\ t.userId = userId /\ t.expiresAt > clock}

\* POST /refresh-token up to its findFirst (lines 259-316), for the body's
\* token; origin is the client request the call serves, 0 when none
RefreshFindOf(s, token, origin) ==
  /\ Free(s)
  /\ nextToken <= MaxSessions
  /\ LET input == [stage |-> "refresh", token |-> token, origin |-> origin,
                   late |-> \E r \in redeemed : r.token = token]
         userId == Field(token.payload, "userId")
     IN  IF token = NoToken
           THEN /\ resp' = Session("refreshToken", NULL, 400, "REQUIRED", NoTokens, input)
                /\ UNCHANGED req
         ELSE IF verify(token, JWT_REFRESH_SECRET, clock) # "ok"
                   \/ StoredTokens(token, userId) = {}
           THEN /\ resp' = Session("refreshToken", userId, 401, "INVALID", NoTokens, input)
                /\ UNCHANGED req
           ELSE \E storedToken \in StoredTokens(token, userId) :
                  /\ req' = [req EXCEPT ![s] =
                       [Request("refreshToken", "delete", userId, storedToken.id, NoUrl)
                          EXCEPT !.loc = [input |-> input]]]
                  /\ resp' = NoResponse
  /\ UNCHANGED <<tests, files, nextId, nextFile, owner, lastStats, users, session>>

RefreshFind(s) ==
  /\ \E token \in BodyRefreshTokens : RefreshFindOf(s, token, 0)
  /\ UNCHANGED browser

\* prisma.refreshToken.delete({ where: { id } }) and the two jwt.sign calls
\* (lines 318-336): P2025 when the row is gone, which the catch answers 500
RefreshDelete(s) ==
  /\ req[s].op = "refreshToken" /\ req[s].pc = "delete"
  /\ IF \E t \in refreshTokens : t.id = req[s].testId
       THEN /\ refreshTokens' = {t \in refreshTokens : t.id # req[s].testId}
            /\ req' = [req EXCEPT ![s].pc = "store",
                                  ![s].loc = [tokens |-> Tokens(req[s].user, clock),
                                              expiresAt |-> clock + RefreshExpiresIn,
                                              input |-> req[s].loc.input]]
            /\ resp' = NoResponse
       ELSE /\ resp' = Session("refreshToken", req[s].user, 500, "INTERNAL", NoTokens,
                               req[s].loc.input)
            /\ req' = Answered(s)
            /\ UNCHANGED refreshTokens
  /\ UNCHANGED <<tests, files, nextId, nextFile, owner, lastStats, users, nextToken,
                 clock, redeemed, issued, browser>>

\* prisma.refreshToken.create of refreshToken and the 200 (lines 338-357)
RefreshStore(s) ==
  /\ req[s].op = "refreshToken" /\ req[s].pc = "store"
  /\ StoreToken("refreshToken", req[s].user, req[s].loc.tokens, req[s].loc.expiresAt,
                200, req[s].loc.input)
  /\ redeemed' = IF resp'.status = 200
                   THEN redeemed \cup {[token |-> req[s].loc.input.token, by |-> "refresh"]}
                   ELSE redeemed
  /\ req' = Answered(s)
  /\ UNCHANGED <<tests, files, nextId, nextFile, owner, lastStats, users, clock,
                 browser>>

\* POST /logout (part_008: behind authenticateUser; part_007 lines 370-395):
\* deleteMany({ where: { token } }) when the body names a token
Logout(s) ==
  /\ Free(s)
  /\ \E bearer \in Bearers, token \in BodyRefreshTokens :
       LET auth == authenticateUser(bearer)
           input == [stage |-> "logout", bearer |-> bearer, token |-> token]
       IN  IF auth.error # "none"
             THEN /\ resp' = Session("logout", NULL, 401, auth.error, NoTokens, input)
                  /\ UNCHANGED <<refreshTokens, redeemed>>
             ELSE /\ refreshTokens' = {t \in refreshTokens : t.token # token}
                  /\ redeemed' = IF token = NoToken THEN redeemed
                                 ELSE redeemed \cup {[token |-> token, by |-> "logout"]}
                  /\ resp' = Session("logout", auth.user.id, 200, "OK", NoTokens, input)
  /\ UNCHANGED <<tests, files, nextId, nextFile, owner, req, lastStats, users,
                 nextToken, clock, issued, browser>>

\* getProfile, updateProfile and changePassword (lines 398-594) up to their
\* first query, for the request origin of the client, 0 when none: the
\* handler reads req.user.userId
ProfileOps == {"getProfile", "updateProfile", "changePassword"}

ProfileOf(s, op, bearer, origin) ==
  /\ Free(s)
  /\ LET auth == authenticateUser(bearer)
         userId == Field(auth.user, "userId")
         input == [stage |-> "profile", bearer |-> bearer, origin |-> origin]
     IN  resp' = IF auth.error # "none"
                   THEN Session(op, NULL, 401, auth.error, NoTokens, input)
                 ELSE IF userId = NULL
                   THEN Session(op, NULL, 401, "NOT_AUTHENTICATED", NoTokens, input)
                 ELSE IF userId \notin users
                   THEN Session(op, userId, 404, "NOT_FOUND", NoTokens, input)
                 ELSE Session(op, userId, 200, "OK", NoTokens, input)
  /\ UNCHANGED <<tests, files, nextId, nextFile, owner, req, lastStats, users, session>>

Profile(s) ==
  /\ \E op \in ProfileOps, bearer \in Bearers : ProfileOf(s, op, bearer, 0)
  /\ UNCHANGED browser

\* DELETE /account (lines 597-626): prisma.user.delete for req.user.userId;
\* the tests and the refresh tokens of the user go with the row
DeleteAccount(s) ==
  /\ Free(s)
  /\ \E bearer \in Bearers :
       LET auth == authenticateUser(bearer)
           userId == Field(auth.user, "userId")
           input == [stage |-> "deleteAccount", bearer |-> bearer]
       IN  IF auth.error # "none" \/ userId = NULL \/ userId \notin users
             THEN /\ resp' = IF auth.error # "none"
                               THEN Session("deleteAccount", NULL, 401, auth.error,
                                            NoTokens, input)
                             ELSE IF userId = NULL
                               THEN Session("deleteAccount", NULL, 401,
                                            "NOT_AUTHENTICATED", NoTokens, input)
                             ELSE Session("deleteAccount", userId, 500, "INTERNAL",
                                          NoTokens, input)
                  /\ UNCHANGED <<tests, users, refreshTokens, lastStats>>
             ELSE /\ users' = users \ {userId}
                  /\ tests' = [id \in {i \in DOMAIN tests : tests[i].userId # userId}
                                 |-> tests[id]]
                  /\ refreshTokens' = {t \in refreshTokens : t.userId # userId}
                  /\ lastStats' = NoResponse
                  /\ resp' = Session("deleteAccount", userId, 200, "OK", NoTokens, input)
  /\ UNCHANGED <<files, nextId, nextFile, owner, req, nextToken, clock, redeemed,
                 issued, browser>>

\* cleanupExpiredTokens (config/database.ts lines 83-99), the daily job of
\* server.ts: deleteMany({ where: { expiresAt: { lt: new Date() } } })
cleanupExpiredTokens ==
  /\ refreshTokens' = {t \in refreshTokens : ~(t.expiresAt < clock)}
  /\ refreshTokens' # refreshTokens
  /\ UNCHANGED <<tests, files, nextId, nextFile, owner, req, resp, lastStats, users,
                 nextToken, clock, redeemed, issued, browser>>

\* time passes
Tick ==
  /\ \E now \in Moments : now > clock /\ clock' = now
  /\ UNCHANGED <<tests, files, nextId, nextFile, owner, req, resp, lastStats, users,
                 refreshTokens, nextToken, redeemed, issued, browser>>

\* AuthSpec: the sessions of two users, one of them registered at the start
AuthInit ==
  /\ tests = <<>>
  /\ files = {}
  /\ nextId = 1
  /\ nextFile = 1
  /\ owner = <<>>
  /\ req = [s \in Slots |-> Idle]
  /\ resp = NoResponse
  /\ lastStats = NoResponse
  /\ users = {"userA"}
  /\ SessionInit /\ BrowserInit

\* the handlers of a session
Auth(s) ==
    \/ LoginSign(s)
    \/ LoginStore(s)
    \/ RefreshFind(s)
    \/ RefreshDelete(s)
    \/ RefreshStore(s)
    \/ Logout(s)

AuthNext ==
  \/ resp = NoResponse /\ \E s \in Slots : Auth(s)
  \/ resp = NoResponse /\ cleanupExpiredTokens
  \/ resp = NoResponse /\ Tick
  \/ Deliver

AuthSpec == AuthInit /\ [][AuthNext]_vars

\* AccessSpec: the requests behind authenticateUser, with the tokens the
\* three issuing handlers have answered with
Access(s) ==
    \/ RegisterCreate(s)
    \/ RegisterStore(s)
    \/ LoginSign(s)
    \/ LoginStore(s)
    \/ RefreshFind(s)
    \/ RefreshDelete(s)
    \/ RefreshStore(s)
    \/ Profile(s)
    \/ DeleteAccount(s)

AccessNext ==
  \/ resp = NoResponse /\ \E s \in Slots : Access(s)
  \/ resp = NoResponse /\ Tick
  \/ Deliver

AccessSpec == AuthInit /\ [][AccessNext]_vars

\* AccountSpec: userA, with the record and the image of an earlier upload,
\* and userB; submissions and sessions while an admin deletes users
AccountInit ==
  /\ tests = (1 :> [Block("userA", "POSITIVE", 1)[1] EXCEPT
                      !.id = 1, !.testDate = 1, !.imageUrl = Url(0)])
  /\ files = {0}
  /\ nextId = 2
  /\ nextFile = 1
  /\ owner = (1 :> "userA")
  /\ req = [s \in Slots |-> Idle]
  /\ resp = NoResponse
  /\ lastStats = NoResponse
  /\ users = Users
  /\ SessionInit /\ BrowserInit

Account(s) ==
    \/ CreateIntake(s)
    \/ CreateProcess(s)
    \/ CreateWrite(s)
    \/ LoginSign(s)
    \/ LoginStore(s)
    \/ RefreshFind(s)
    \/ RefreshDelete(s)
    \/ RefreshStore(s)
    \/ DeleteUserFind(s)
    \/ DeleteUserWrite(s)
    \/ DeleteAccount(s)

AccountNext ==
  \/ resp = NoResponse /\ \E s \in Slots : Account(s)
  \/ Deliver

AccountSpec == AccountInit /\ [][AccountNext]_vars

----------------------------------------------------------------------------
\* The API client: createApiInstance (frontend Layout.tsx lines 421-492)

MaxRequests == 2     \* requests the page has sent through the instance

NoReply == [status |-> 0, tokens |-> NoTokens]

\* A request of the page: where it stands, originalRequest._retry, the
\* Authorization header and the refresh token of the call it is waiting
\* for, the response on its way back, how often it has been sent, and
\* whether its refresh-token call has succeeded.
ClientRequest(pc, retry, bearer, token, reply, sends) ==
  [pc |-> pc, retry |-> retry, bearer |-> bearer, token |-> token,
   reply |-> reply, sends |-> sends, refreshed |-> FALSE]

Settled == {"done", "failed", "aborted"}

\* api.get(...): the request interceptor reads the access token of
\* localStorage (lines 435-441) and the request leaves
ClientStart(k) ==
  /\ client[k].pc = "new"
  /\ href # "/login"
  /\ client' = [client EXCEPT ![k].pc = "sending", ![k].bearer = storage.accessToken]
  /\ UNCHANGED <<tests, files, nextId, nextFile, owner, req, resp, lastStats, users,
                 session, storage, href>>

\* the request reaches a route behind authenticateUser
ClientSend(k) ==
  /\ client[k].pc = "sending"
  /\ client' = [client EXCEPT ![k].pc = "waiting", ![k].sends = @ + 1]
  /\ \E s \in Slots : ProfileOf(s, "getProfile", client[k].bearer, k)
  /\ UNCHANGED <<storage, href>>

\* the response the server has sent travels to the request it answers
Arrive(k) ==
  /\ resp # NoResponse
  /\ resp.input.origin = k
  /\ client' = [client EXCEPT ![k].reply = [status |-> resp.status, tokens |-> resp.data]]
  /\ resp' = NoResponse
  /\ UNCHANGED <<tests, files, nextId, nextFile, owner, req, lastStats, users,
                 session, storage, href>>

\* the response interceptor (lines 446-481) up to its await: a response
\* that is no 401 is returned; a first 401 sets _retry and posts the
\* refresh token of localStorage, when there is one; any other is rejected
Intercept(k) ==
  /\ client[k].pc = "waiting"
  /\ client[k].reply # NoReply
  /\ client' = [client EXCEPT ![k] =
       IF client[k].reply.status # 401
         THEN [@ EXCEPT !.pc = "done", !.reply = NoReply]
       ELSE IF ~client[k].retry /\ storage.refreshToken # NoToken
         THEN [@ EXCEPT !.pc = "posting", !.retry = TRUE, !.reply = NoReply,
                        !.token = storage.refreshToken]
       ELSE [@ EXCEPT !.pc = "failed", !.retry = TRUE, !.reply = NoReply]]
  /\ UNCHANGED <<tests, files, nextId, nextFile, owner, req, resp, lastStats, users,
                 session, storage, href>>

\* axios.post('/auth/refresh-token') reaches the server
ClientRefresh(k) ==
  /\ client[k].pc = "posting"
  /\ client' = [client EXCEPT ![k].pc = "refreshing"]
  /\ \E s \in Slots : RefreshFindOf(s, client[k].token, k)
  /\ UNCHANGED <<storage, href>>

\* after the await (lines 459-475): the new pair is stored and the request
\* is sent again with the new access token, or, when the call has failed,
\* both tokens are removed and the page goes to /login
Refreshed(k) ==
  /\ client[k].pc = "refreshing"
  /\ client[k].reply # NoReply
  /\ IF client[k].reply.status = 200
       THEN /\ storage' = client[k].reply.tokens
            /\ client' = [client EXCEPT ![k].pc = "sending", ![k].reply = NoReply,
                                        ![k].refreshed = TRUE,
                                        ![k].bearer = client[k].reply.tokens.accessToken]
            /\ UNCHANGED href
       ELSE /\ storage' = NoTokens
            /\ href' = "/login"
            /\ client' = [client EXCEPT ![k].pc = "failed", ![k].reply = NoReply]
  /\ UNCHANGED <<tests, files, nextId, nextFile, owner, req, resp, lastStats, users,
                 session>>

\* window.location.href = '/login' takes effect: the page is left, and what
\* it was waiting for is dropped
Unload ==
  /\ href = "/login"
  /\ \E k \in DOMAIN client : client[k].pc \notin Settled
  /\ client' = [k \in DOMAIN client |->
                  IF client[k].pc \in Settled THEN client[k]
                  ELSE [client[k] EXCEPT !.pc = "aborted", !.reply = NoReply]]
  /\ UNCHANGED <<tests, files, nextId, nextFile, owner, req, resp, lastStats, users,
                 session, storage, href>>

\* ClientSpec: userA logged in at second 0, the access token has expired,
\* and the page sends its requests
ClientInit ==
  /\ tests = <<>>
  /\ files = {}
  /\ nextId = 1
  /\ nextFile = 1
  /\ owner = <<>>
  /\ req = [s \in Slots |-> Idle]
  /\ resp = NoResponse
  /\ lastStats = NoResponse
  /\ users = {"userA"}
  /\ refreshTokens = { [id |-> 1, token |-> Tokens("userA", 0).refreshToken,
                        userId |-> "userA", expiresAt |-> RefreshExpiresIn] }
  /\ nextToken = 2
  /\ clock = AccessExpiresIn
  /\ redeemed = {}
  /\ issued = {Tokens("userA", 0).accessToken, Tokens("userA", 0).refreshToken}
  /\ storage = Tokens("userA", 0)
  /\ href = "/"
  /\ client = [k \in 1..MaxRequests |->
                 ClientRequest("new", FALSE, NoToken, NoToken, NoReply, 0)]

Browser(k) ==
    \/ ClientStart(k)
    \/ ClientSend(k)
    \/ Intercept(k)
    \/ ClientRefresh(k)
    \/ Refreshed(k)

ClientNext ==
  \/ resp = NoResponse /\ \E k \in DOMAIN client : Browser(k)
  \/ resp = NoResponse /\ \E s \in Slots : RefreshDelete(s) \/ RefreshStore(s)
  \/ resp = NoResponse /\ Unload
  \/ \E k \in DOMAIN client : Arrive(k)

ClientSpec == ClientInit /\ [][ClientNext]_vars

----------------------------------------------------------------------------
\* Properties

OwnerOps == {"get", "update", "delete", "reanalyze"}

C1_ForeignAnswered ==
  (resp.op \in OwnerOps /\ resp.testId \in DOMAIN owner /\ owner[resp.testId] # resp.user)
    => (resp.status = 404 /\ resp.data = NoTest)

C1_ForeignUntouched ==
  \A id \in DOMAIN tests :
    (id \notin DOMAIN tests' \/ tests'[id] # tests[id])
      => (resp'.op \in OwnerOps /\ resp'.user = tests[id].userId
          /\ resp'.testId = id /\ resp'.status = 200)

\* C1: a getTestById, updateTest, deleteTest or reanalyzeTest request on a
\* test that another user created is answered 404 and carries no row, and a
\* row changes or goes only in a step that answers 200 to the user who
\* created it, for that row.
C1_Ownership == []C1_ForeignAnswered /\ [][C1_ForeignUntouched]_vars

\* userB's deleteTest on a row of userA that is in the table was answered 404
C1_Witness ==
  /\ resp.op = "delete" /\ resp.user = "userB" /\ resp.status = 404
  /\ resp.testId \in DOMAIN tests
  /\ tests[resp.testId].userId = "userA"

OversizeAllowed(file) ==
  file.present /\ file.size > UPLOAD_MAX_SIZE /\ file.mimetype \in allowedTypes

GateOpen(file) == uploadTestImage(file) = NoError /\ file.present

C4_GateStopsStep ==
  \A s \in Slots, u \in Users, file \in Files, img \in Images :
    (GateOpen(file) /\ ~validateRDTImage(img).isValid /\ CreateIntakeOf(s, u, file, img))
      => /\ resp'.status = 400 /\ resp'.code = "POOR_IMAGE_QUALITY"
         /\ resp'.data = NoTest
         /\ UNCHANGED <<tests, files, nextId, nextFile, req>>

\* C4: a createTest step whose image validateRDTImage reports as not valid
\* answers 400 POOR_IMAGE_QUALITY without data and leaves the table, the
\* image directory and the connections as they were: the request never
\* reaches processTestImage, analyzeTestImage or prisma.test.create.
C4_GateStops == [][C4_GateStopsStep]_vars

\* Scenario 3: an all-black image was rejected as too dark
C4_Witness ==
  /\ resp.op = "create" /\ resp.code = "POOR_IMAGE_QUALITY"
  /\ resp.input.validation.issues = <<"Image appears too dark">>

C5_OriginalStep ==
  \A s \in Slots, u \in Users, file \in Files, img \in Images :
    (file.present /\ file.size > UPLOAD_MAX_SIZE /\ CreateIntakeOf(s, u, file, img))
      => (resp'.code = "FILE_TOO_LARGE" /\ DOMAIN tests' = DOMAIN tests)

\* C5 as claimed: every submission whose file is larger than UPLOAD_MAX_SIZE
\* is answered with the too-large code and adds no row.
C5_Original == [][C5_OriginalStep]_vars

C5_TooLargeStep ==
  \A s \in Slots, u \in Users, file \in Files, img \in Images :
    (file.present /\ file.size > UPLOAD_MAX_SIZE /\ CreateIntakeOf(s, u, file, img))
      => /\ resp'.status = 400
         /\ resp'.code = IF file.mimetype \in allowedTypes
                           THEN "FILE_TOO_LARGE" ELSE "INVALID_FILE_TYPE"
         /\ UNCHANGED <<tests, files, nextId, nextFile, req>>

\* C5: a submission whose file is larger than UPLOAD_MAX_SIZE is answered
\* 400, with FILE_TOO_LARGE when its type is one of allowedTypes and with
\* INVALID_FILE_TYPE otherwise, and the table is left as it was.
C5_TooLarge == [][C5_TooLargeStep]_vars

\* Scenario 2: a JPEG above the ceiling was answered FILE_TOO_LARGE
C5_Witness ==
  /\ resp.op = "create" /\ resp.code = "FILE_TOO_LARGE"
  /\ OversizeAllowed(resp.input.file)

FrameFields(row) == DOMAIN row \ {"location", "isAnonymous"}

C7_UpdateStep ==
  \A s \in Slots :
    UpdateWrite(s)
      => /\ DOMAIN tests' = DOMAIN tests
         /\ \A id \in DOMAIN tests :
              /\ \A f \in FrameFields(tests[id]) : tests'[id][f] = tests[id][f]
              /\ id # req[s].testId => tests'[id] = tests[id]

\* C7: the write of updateTest leaves every field of the row other than
\* location and isAnonymous as it was, whatever keys the body carries, and
\* leaves every other row alone.
C7_UpdateFrame == [][C7_UpdateStep]_vars

\* an update whose body named another result than the row's was answered 200
C7_Witness ==
  /\ resp.op = "update" /\ resp.status = 200
  /\ "result" \in resp.input.body.has
  /\ resp.input.body.result # tests[resp.testId].result
  /\ "location" \in resp.input.body.has
  /\ tests[resp.testId].location = resp.input.body.location

PastIntake(r) == r.op = "create" /\ r.input.stage \in {"process", "write"}

C2_OriginalState ==
  PastIntake(resp) => (resp.status = 201 /\ resp.testId \in DOMAIN tests)

C2_Created ==
  (resp.op = "create" /\ resp.input.stage = "write")
    => IF resp.input.testType \in TestType
         THEN /\ resp.status = 201
              /\ resp.testId \in DOMAIN tests
              /\ tests[resp.testId] = resp.data
              /\ resp.data.result \in TestResult
              /\ resp.data.confidence \in 0..100
              /\ resp.data.userId = resp.user
              /\ FindFirst(resp.testId, resp.user) = resp.data
         ELSE resp.status = 400 /\ resp.code = "VALIDATION_ERROR" /\ resp.data = NoTest

C2_OneRowStep ==
  \A s \in Slots :
    CreateWrite(s)
      => /\ \A id \in DOMAIN tests : id \in DOMAIN tests' /\ tests'[id] = tests[id]
         /\ IF resp'.status = 201
              THEN resp'.testId \notin DOMAIN tests
                   /\ DOMAIN tests' = DOMAIN tests \cup {resp'.testId}
              ELSE DOMAIN tests' = DOMAIN tests

StoredFor(r) == r.input.imageUrl # NoUrl /\ r.input.imageUrl[2] \in files

\* C3 as claimed: a createTest request that fails after intake is answered
\* with an error that carries no result, and neither a row nor a stored image
\* file is left behind for it.
C3_AllOrNothing ==
  (PastIntake(resp) /\ resp.status # 201)
    => /\ resp.status >= 400 /\ resp.data = NoTest
       /\ \A id \in DOMAIN tests : tests[id].imageUrl # resp.input.imageUrl
       /\ ~StoredFor(resp)

OneClassification(row) ==
  [result |-> row.result, confidence |-> row.confidence] \in mockResults

\* the rows that the last response shows with result and confidence
ShownRows ==
  IF resp.op \in {"get", "create", "reanalyze", "update"} /\ resp.data # NoTest
    THEN {resp.data}
  ELSE IF resp.op = "list" /\ resp.status = 200
    THEN {resp.data.tests[i] : i \in DOMAIN resp.data.tests}
  ELSE {}

\* the rows a getUserTests call has read and not yet sent
HeldRows ==
  UNION { {req[s].loc.tests[i] : i \in DOMAIN req[s].loc.tests} :
            s \in {t \in Slots : req[t].op = "list" /\ req[t].pc = "count"} }

\* C6: whatever re-analyses and reads interleave, the result and confidence
\* of every stored row and of every row a read holds or shows are those of
\* one classification, one of the pairs analyzeTestImage produces.
C6_PairsTogether ==
  \A row \in {tests[id] : id \in DOMAIN tests} \cup ShownRows \cup HeldRows :
    OneClassification(row)

\* a getUserTests call read a row, a re-analysis then changed its result, and
\* the call answered with the pair it had read
C6_Witness ==
  /\ resp.op = "list" /\ Len(resp.data.tests) = 1
  /\ resp.data.tests[1].id \in DOMAIN tests
  /\ tests[resp.data.tests[1].id].result # resp.data.tests[1].result

\* the rows of the last response of getUserTestStats, which carry a result
RecentRows ==
  IF resp.op = "stats" THEN {resp.data.recentTests[i] : i \in DOMAIN resp.data.recentTests}
  ELSE {}

Classified(row) ==
  /\ row.result \in TestResult
  /\ "confidence" \in DOMAIN row => row.confidence \in 0..100
  /\ "imageUrl" \in DOMAIN row => row.imageUrl # NoUrl

\* C8: no stored row and no row that getTestById, getUserTests or
\* getUserTestStats holds or shows lacks its result, confidence or imageUrl,
\* and while a createTest has stored its image and not yet written its row,
\* the table has no row of that submission.
C8_CreateAtomic ==
  /\ \A row \in {tests[id] : id \in DOMAIN tests} \cup ShownRows \cup HeldRows
                  \cup RecentRows :
       Classified(row)
  /\ \A s \in Slots :
       (req[s].op = "create" /\ req[s].pc = "write")
         => \A id \in DOMAIN tests : tests[id].imageUrl # req[s].imageUrl

\* a getUserTests call of the owner ran its findMany before the row of a
\* createTest was written and its count after: no row on the page, total 1
C8_Witness ==
  /\ resp.op = "list" /\ resp.input.query.result = NULL
  /\ resp.data.tests = <<>> /\ resp.data.pagination.total = 1
  /\ \E id \in DOMAIN tests : tests[id].userId = resp.user

StatsOps == {"stats", "dashboard", "statistics"}

\* the where clause of the rows a statistics response is about
ScopeOf(r) ==
  IF r.op = "stats" THEN UserWhere(r.user)
  ELSE IF r.op = "dashboard" THEN AnyWhere
  ELSE StatisticsWhere(r.input.query)

TotalIn(r) == Count(ScopeOf(r))
PositiveIn(r) == Count([ScopeOf(r) EXCEPT !.result = "POSITIVE"])

\* the total a statistics response reports
TotalOf(r) == IF r.op = "statistics" THEN r.data.total ELSE r.data.totalTests

InRange(rate) == rate.den > 0 /\ 0 <= rate.num /\ rate.num <= 100 * rate.den

\* C9 as claimed: the positivityRate of a response of getUserTestStats,
\* getDashboardStats or getTestStatistics is in [0,100] and is 0 exactly
\* when the total is 0.
C9_Original ==
  resp.op \in StatsOps
    => /\ InRange(resp.data.positivityRate)
       /\ resp.data.positivityRate.num = 0 <=> TotalOf(resp) = 0

\* C9: over a table that does not change during the call, the positivityRate
\* of a response of getUserTestStats, getDashboardStats or getTestStatistics
\* is in [0,100], is 0 when the total is 0, and is 0 exactly when no row in
\* scope is POSITIVE.
C9_RateRange ==
  resp.op \in StatsOps
    => /\ InRange(resp.data.positivityRate)
       /\ TotalOf(resp) = TotalIn(resp)
       /\ TotalOf(resp) = 0 => resp.data.positivityRate.num = 0
       /\ resp.data.positivityRate.num = 0 <=> PositiveIn(resp) = 0

\* getUserTestStats over rows none of which is POSITIVE: total 6, rate 0
C9_Witness ==
  /\ resp.op = "stats" /\ resp.data.totalTests = MaxNegative
  /\ resp.data.positiveTests = 0
  /\ resp.data.positivityRate.num = 0

\* C10: the positivityRate of a statistics response is the number of
\* POSITIVE rows in scope divided by the number of rows in scope, times 100,
\* when there are rows in scope, and 0 when there are none; for 3 POSITIVE
\* among 10 rows it is 30.
C10_RateValue ==
  resp.op \in StatsOps
    => LET rate == resp.data.positivityRate
       IN  /\ rate.den > 0
           /\ IF TotalIn(resp) > 0
                THEN rate.num * TotalIn(resp) = 100 * PositiveIn(resp) * rate.den
                ELSE rate = [num |-> 0, den |-> 1]
           /\ (PositiveIn(resp) = 3 /\ TotalIn(resp) = 10)
                => rate = [num |-> 30, den |-> 1]

\* Scenario 4: userA has 6 NEGATIVE, 3 POSITIVE and 1 INVALID row and
\* getUserTestStats answers 30
C10_Witness ==
  /\ resp.op = "stats" /\ resp.user = "userA"
  /\ Count([UserWhere("userA") EXCEPT !.result = "NEGATIVE"]) = 6
  /\ Count([UserWhere("userA") EXCEPT !.result = "INVALID"]) = 1
  /\ resp.data.totalTests = 10 /\ resp.data.positiveTests = 3
  /\ resp.data.positivityRate = [num |-> 30, den |-> 1]

RECURSIVE SumValues(_)
SumValues(f) ==
  IF DOMAIN f = {} THEN 0
  ELSE LET k == CHOOSE x \in DOMAIN f : TRUE
       IN  f[k] + SumValues([x \in DOMAIN f \ {k} |-> f[x]])

\* C11 as claimed: every getUserTestStats response is that of one state of
\* the table, whatever writes interleave with its queries: positiveTests is
\* at most totalTests, the counts of testTypeStats add up to totalTests and
\* recentTests holds no more rows than totalTests counts.
C11_OneState ==
  resp.op = "stats"
    => /\ resp.data.positiveTests <= resp.data.totalTests
       /\ SumValues(resp.data.testTypeStats) = resp.data.totalTests
       /\ Len(resp.data.recentTests) <= resp.data.totalTests

StatsStep(s) ==
  StatsGroupBy(s) \/ StatsTotal(s) \/ StatsPositive(s) \/ StatsRecent(s)

C12_SameOutputStep ==
  \A s \in Slots :
    StatsStep(s)
      => /\ UNCHANGED <<tests, files, nextId, nextFile>>
         /\ (resp'.op = "stats" /\ lastStats.op = "stats"
               /\ lastStats.user = resp'.user)
              => resp'.data = lastStats.data

\* C12 as claimed: no step of getUserTestStats changes the table or the image
\* directory, and a getUserTestStats response carries the same data as the
\* response before it to the same user when the table has not changed since.
C12_SameOutput == [][C12_SameOutputStep]_vars

\* the last response is to a request on a row that is in the table and
\* belongs to another user
OnForeignRow(r) ==
  /\ r.op \in OwnerOps
  /\ r.testId \in DOMAIN tests
  /\ tests[r.testId].userId # r.user

\* C13 as claimed: getTestById, updateTest, deleteTest and reanalyzeTest on a
\* row of another user are answered 403 Forbidden, which is not the answer
\* to a request on an id that no row has.
C13_Forbidden ==
  OnForeignRow(resp)
    => /\ resp.status = 403
       /\ [status |-> resp.status, code |-> resp.code]
            # errorHandler(AppError(404, "TEST_NOT_FOUND"))

C14_AbsentAnswered ==
  (resp.op \in OwnerOps /\ resp.testId \notin DOMAIN tests)
    => \/ resp.status = 404 /\ resp.data = NoTest
       \/ resp.op = "delete" /\ resp.status = 200

C14_AbsentStep ==
  /\ (resp'.op \in OwnerOps /\ resp'.status = 404)
       => UNCHANGED <<tests, files, nextId, nextFile>>
  /\ \A s \in Slots :
       DeleteWrite(s)
         => /\ resp'.status = IF req[s].testId \in DOMAIN tests THEN 200 ELSE 404
            /\ resp'.status = 200 => tests' = Without(req[s].testId)

C15_ReleasedStep ==
  \A s \in Slots :
    (DeleteWrite(s) /\ resp'.status = 200)
      => /\ FindFirst(req[s].testId, req[s].user)' = NoTest
         /\ req[s].testId \notin Matching(AnyWhere)'
         /\ tests[req[s].testId].imageUrl[2] \notin files'

\* C15 as claimed: when deleteTest is answered 200 the row can no longer be
\* found or counted, and the file its imageUrl names is gone from the image
\* directory.
C15_Released == [][C15_ReleasedStep]_vars

\* a row of an admin view names its owner
NamesOwner(row) ==
  "user" \in DOMAIN row /\ {"name", "email"} \cap DOMAIN row.user # {}

\* the rows with an owner that the last admin response shows
AdminRows ==
  IF resp.op = "dashboard"
    THEN {resp.data.recentTests[i] : i \in DOMAIN resp.data.recentTests}
  ELSE IF resp.op = "all" /\ resp.status = 200
    THEN {resp.data.tests[i] : i \in DOMAIN resp.data.tests}
  ELSE {}

\* C16 as claimed: no row with isAnonymous = true is shown with the name or
\* email of its owner by getDashboardStats, getAllTests or exportData, and
\* the dashboard counts these rows in totalTests.
C16_Anonymous ==
  /\ \A row \in AdminRows : row.isAnonymous => ~NamesOwner(row)
  /\ resp.op = "export"
       => \A i \in DOMAIN resp.data.rows :
            tests[resp.data.ids[i]].isAnonymous
              => LET user == User(tests[resp.data.ids[i]].userId)
                 IN  /\ resp.data.rows[i][CsvUserName] # user.name
                     /\ resp.data.rows[i][CsvUserEmail] # user.email
  /\ resp.op = "dashboard" => resp.data.totalTests = Count(AnyWhere)

\* C17 as claimed: DELETE /admin/users/:userId removes a user only for an
\* admin that requirePermission lets pass, one whose role is SUPER_ADMIN or
\* whose permissions hold the permission to delete users.
C17_Elevated ==
  (resp.op = "deleteUser" /\ resp.status = 200)
    => requirePermission("delete_users", AdminOf(resp.user)) = NoError

\* the key a list is asked to be sorted by: date when none is named
SortKey(row, sortBy) ==
  IF sortBy = "confidence" THEN row.confidence ELSE row.testDate

\* a comes no later than b in the order asked for
InOrder(a, b, query) ==
  IF query.sortOrder = "asc"
    THEN SortKey(a, query.sortBy) <= SortKey(b, query.sortBy)
    ELSE SortKey(a, query.sortBy) >= SortKey(b, query.sortBy)

\* C18 as claimed: the page of getUserTests is in the order of the sortBy
\* and sortOrder of the request (date or confidence, asc or desc), and the
\* first page holds the rows that come first in that order: no matching row
\* off the page comes strictly before a row on it.
C18_Sorted ==
  (resp.op = "list" /\ resp.status = 200)
    => LET query == resp.input.query
           page == resp.data.tests
       IN  /\ \A i, j \in DOMAIN page : i < j => InOrder(page[i], page[j], query)
           /\ query.page = 1
                => \A id \in Matching(ListWhere(resp.user, query)) :
                     \/ \E i \in DOMAIN page : page[i].id = id
                     \/ \A i \in DOMAIN page : InOrder(page[i], tests[id], query)

\* the rows of the table that the requester owns and that pass every
\* filter the query string carries
Wanted(user, query) ==
  { id \in DOMAIN tests :
      /\ tests[id].userId = user
      /\ query.testType # NULL => tests[id].testType = query.testType
      /\ query.result # NULL => tests[id].result = query.result
      /\ query.startDate # 0 => tests[id].testDate >= query.startDate
      /\ query.endDate # 0 => tests[id].testDate <= query.endDate }

PageIds(page) == {page[i].id : i \in DOMAIN page}

\* C19: every row on a page of getUserTests is a row of the requester that
\* passes every filter of the request, shown as it is in the table, and the
\* rows left out are left out by pagination only: the page holds as many
\* distinct rows as the wanted rows from offset (page-1)*limit on allow, up
\* to limit, and total counts the wanted rows.
C19_OwnFiltered ==
  (resp.op = "list" /\ resp.status = 200)
    => LET query == resp.input.query
           page == resp.data.tests
           wanted == Wanted(resp.user, query)
           rest == Cardinality(wanted) - (query.page - 1) * query.limit
       IN  /\ PageIds(page) \subseteq wanted
           /\ \A i \in DOMAIN page : page[i] = Select(tests[page[i].id], DOMAIN page[i])
           /\ Cardinality(PageIds(page)) = Len(page)
           /\ Len(page) = IF rest <= 0 THEN 0
                          ELSE IF rest <= query.limit THEN rest ELSE query.limit
           /\ resp.data.pagination.total = Cardinality(wanted)

\* userA asked for POSITIVE rows only: the page shows some, a POSITIVE row
\* of userB and another row of userA are in the table and not on the page
C19_Witness ==
  /\ resp.op = "list" /\ resp.status = 200 /\ resp.user = "userA"
  /\ resp.input.query.result = "POSITIVE" /\ resp.input.query.page = 1
  /\ Len(resp.data.tests) = 2
  /\ \E id \in DOMAIN tests :
       tests[id].userId = "userB" /\ tests[id].result = "POSITIVE"
  /\ \E id \in DOMAIN tests :
       tests[id].userId = "userA" /\ tests[id].result = "NEGATIVE"

\* the where clause of the rows a list response is about
ListedWhere(r) ==
  IF r.op = "list" THEN ListWhere(r.user, r.input.query) ELSE AllWhere(r.input.query)

\* C20 as claimed: every getUserTests and getAllTests request with page >= 1
\* and limit >= 1 is answered with a page of at most limit rows and the
\* pagination metadata.
C20_Original ==
  (resp.op \in {"list", "all"} /\ resp.input.query.page >= 1
     /\ resp.input.query.limit >= 1)
    => /\ resp.status = 200
       /\ Len(resp.data.tests) <= resp.input.query.limit
       /\ resp.data.pagination.total = Count(ListedWhere(resp))

\* C20: for page >= 1 and 1 <= limit <= 100 getUserTests and getAllTests
\* answer with at most limit rows, the matching rows at offsets (page-1)*limit
\* to page*limit-1 of the order newest first, and with total the number of
\* matching rows, totalPages the least number of pages of limit rows that
\* hold them, hasNext = (page < totalPages) and hasPrev = (page > 1); a
\* limit above 100 is answered 400 without a page.
C20_Paged ==
  (resp.op \in {"list", "all"} /\ resp.input.query.page >= 1
     /\ resp.input.query.limit >= 1)
    => LET query == resp.input.query
           all == OrderByTestDateDesc(Matching(ListedWhere(resp)))
           skip == (query.page - 1) * query.limit
       IN  IF query.limit > 100
             THEN resp.status = 400 /\ resp.data = NoTest
             ELSE LET page == resp.data.tests
                      meta == resp.data.pagination
                  IN  /\ resp.status = 200
                      /\ Len(page) <= query.limit
                      /\ \A k \in 1..query.limit :
                           IF skip + k <= Len(all)
                             THEN k <= Len(page) /\ page[k].id = all[skip + k].id
                             ELSE k > Len(page)
                      /\ meta.page = query.page /\ meta.limit = query.limit
                      /\ meta.total = Len(all)
                      /\ meta.totalPages * query.limit >= meta.total
                      /\ (meta.totalPages - 1) * query.limit < meta.total
                      /\ meta.hasNext = (query.page < meta.totalPages)
                      /\ meta.hasPrev = (query.page > 1)

\* page 2 of 3 of the five rows of a getAllTests request with limit 2
C20_Witness ==
  /\ resp.op = "all" /\ resp.status = 200
  /\ resp.input.query.page = 2 /\ resp.input.query.limit = 2
  /\ Len(resp.data.tests) = 2
  /\ resp.data.pagination.total = 5 /\ resp.data.pagination.totalPages = 3
  /\ resp.data.pagination.hasNext /\ resp.data.pagination.hasPrev

HasLabel(row) == row.location # NULL /\ row.location # ""
HasCoordinates(row) == row.latitude # NoFloat /\ row.longitude # NoFloat

\* the rows that have a location label or coordinates
Located == {id \in DOMAIN tests : HasLabel(tests[id]) \/ HasCoordinates(tests[id])}

\* the cluster a located row belongs to: its label, or its coordinates when
\* it has no label (the coordinates of the model are whole degrees)
ClusterOf(row) ==
  IF HasLabel(row) THEN <<row.location, NoFloat, NoFloat>>
                   ELSE <<"", row.latitude, row.longitude>>

\* C21 as claimed: in the geographicData of getDashboardStats every row with
\* a location label or coordinates is counted in the one cluster of its label
\* (of its coordinates when it has no label), every cluster reports the
\* number of its rows, the number of its POSITIVE rows, which is at most the
\* former, and their rate, and a row with neither is in no cluster and is
\* counted in totalTests.
C21_Clusters ==
  resp.op = "dashboard"
    => LET geo == resp.data.geographicData
       IN  /\ DOMAIN geo = {ClusterOf(tests[id]) : id \in Located}
           /\ \A key \in DOMAIN geo :
                LET cluster == {id \in Located : ClusterOf(tests[id]) = key}
                    positive == {id \in cluster : tests[id].result = "POSITIVE"}
                IN  /\ geo[key].testCount = Cardinality(cluster)
                    /\ geo[key].positiveCount = Cardinality(positive)
                    /\ geo[key].positiveCount <= geo[key].testCount
                    /\ geo[key].positivityRate
                         = PositivityRate(Cardinality(positive), Cardinality(cluster))
           /\ resp.data.totalTests = Cardinality(DOMAIN tests)

\* the buckets of the last response, and the count of a bucket
Buckets ==
  IF resp.op = "dashboard" THEN resp.data.trendData
  ELSE IF resp.op = "statistics" THEN resp.data.byDate
  ELSE <<>>

BucketCount(bucket) == IF "tests" \in DOMAIN bucket THEN bucket.tests ELSE bucket.count

\* the rows a response counts by day: all rows for the dashboard, the rows of
\* the test type asked for in getTestStatistics
DailyScope(r) ==
  IF r.op = "dashboard" THEN AnyWhere
  ELSE [StatisticsWhere(r.input.query) EXCEPT !.startDate = 0, !.endDate = 0]

OnDay(where, day) == {id \in Matching(where) : IsoDate(tests[id].testDate) = day}

\* C22 as claimed: trendData of getDashboardStats and byDate of
\* getTestStatistics hold at most one bucket per calendar day, none for a day
\* before the 30 days that end now, and the count and the positive count of
\* a bucket are the number of rows, and of POSITIVE rows, whose testDate is on
\* the day of the bucket, so that positive is at most count.
C22_Daily ==
  resp.op \in {"dashboard", "statistics"}
    => \A i \in DOMAIN Buckets :
         LET bucket == Buckets[i]
             rows == OnDay(DailyScope(resp), bucket.date)
         IN  /\ \A j \in DOMAIN Buckets : j # i => Buckets[j].date # bucket.date
             /\ bucket.date >= IsoDate(resp.input.now - WindowDays * TicksPerDay)
             /\ BucketCount(bucket) = Cardinality(rows)
             /\ bucket.positive
                  = Cardinality({id \in rows : tests[id].result = "POSITIVE"})
             /\ bucket.positive <= BucketCount(bucket)

KeptFields == {"id", "userId", "testType", "imageUrl"}

C23_AsCreated ==
  \A id \in DOMAIN tests : tests[id].id = id /\ tests[id].userId = owner[id]

C23_KeptStep ==
  /\ \A id \in DOMAIN tests \cap DOMAIN tests' :
       \A f \in KeptFields : tests'[id][f] = tests[id][f]
  /\ \A id \in DOMAIN tests \ DOMAIN tests' :
       resp'.op = "delete" /\ resp'.testId = id
  /\ \A id \in DOMAIN tests' \ DOMAIN tests :
       resp'.op = "create" /\ id \notin DOMAIN owner

\* C23: the id, userId, testType and imageUrl of a row are those createTest
\* gave it as long as the row exists: no step of updateTest or reanalyzeTest
\* changes them, whatever the body of the update names, a row goes only by
\* deleteTest, and a new row never takes the id of an earlier one.
C23_Immutable == []C23_AsCreated /\ [][C23_KeptStep]_vars

\* an update whose body named another owner, test type and image was
\* answered 200, and the row has the ones it had
C23_Witness ==
  /\ resp.op = "update" /\ resp.status = 200
  /\ {"userId", "testType", "imageUrl"} \subseteq resp.input.body.has
  /\ tests[resp.testId].userId = resp.user
  /\ tests[resp.testId].userId # resp.input.body.userId
  /\ tests[resp.testId].testType # resp.input.body.testType
  /\ tests[resp.testId].imageUrl # resp.input.body.imageUrl
  /\ tests[resp.testId].location = resp.input.body.location

\* C24 as claimed: every stored row that has a latitude has it within
\* [-90, 90] and every stored row that has a longitude has it within
\* [-180, 180], whatever coordinates the createTest request carried.
C24_InRange ==
  \A id \in DOMAIN tests :
    /\ tests[id].latitude # NoFloat
         => (-90 <= tests[id].latitude /\ tests[id].latitude <= 90)
    /\ tests[id].longitude # NoFloat
         => (-180 <= tests[id].longitude /\ tests[id].longitude <= 180)

\* C25 as claimed: in a getUserTestStats response resultStats[r] is the
\* number of rows of the user with result r, for each of the four results
\* and for rows of any mix of test types, so that the four counts add up to
\* totalTests and resultStats.POSITIVE is positiveTests.
C25_ResultCounts ==
  resp.op = "stats"
    => /\ \A r \in TestResult :
            resp.data.resultStats[r] = Count([UserWhere(resp.user) EXCEPT !.result = r])
       /\ SumValues(resp.data.resultStats) = resp.data.totalTests
       /\ resp.data.resultStats["POSITIVE"] = resp.data.positiveTests

\* C27 as claimed: in every state that createTest, updateTest, reanalyzeTest,
\* deleteTest and the cleanupOldImages job lead to, the imageUrl of every row
\* names a file that is in the image directory.
C27_ImagesKept ==
  \A id \in DOMAIN tests :
    tests[id].imageUrl # NoUrl /\ tests[id].imageUrl[2] \in files


C29_OnceStep ==
  (resp'.op = "refreshToken" /\ resp'.status = 200)
    => /\ ~resp'.input.late
       /\ [token |-> resp'.input.token, by |-> "refresh"] \notin redeemed

\* C29 as claimed: a refresh token is redeemable at most once.  No
\* refresh-token call that starts after a refresh-token call has succeeded
\* with the same token, or after a logout has named it, is answered 200,
\* and of the refresh-token calls in flight together with one token at most
\* one is answered 200.
C29_Once == [][C29_OnceStep]_vars


\* the routes of the auth router behind authenticateUser that C26 names
AccountOps == ProfileOps \cup {"deleteAccount"}

\* C26 as claimed: a request that presents an access token register, login
\* or refresh-token has issued, before the token expires and while its user
\* exists, is not answered 401 but processed as the user the token was
\* issued to.
C26_Accepted ==
  (/\ resp.op \in AccountOps
   /\ resp.input.bearer \in issued
   /\ verify(resp.input.bearer, JWT_SECRET, clock) = "ok"
   /\ resp.input.bearer.payload.userId \in users)
    => (resp.status = 200 /\ resp.user = resp.input.bearer.payload.userId)


\* C28: every test record and every refresh token belongs to a user that
\* exists: once a user is deleted no record and no refresh token of that
\* user is in the tables, whatever was in flight during the deletion.
C28_Referenced ==
  /\ \A id \in DOMAIN tests : tests[id].userId \in users
  /\ \A t \in refreshTokens : t.userId \in users

\* userA, who had a record and a session, is deleted, and the createTest of
\* userA that was in flight is refused
C28_Witness ==
  /\ "userA" \notin users
  /\ 1 \in DOMAIN owner /\ owner[1] = "userA"
  /\ \E t \in issued : t.secret = JWT_REFRESH_SECRET /\ t.payload.userId = "userA"
  /\ resp.op = "create" /\ resp.user = "userA" /\ resp.code = "INVALID_REFERENCE"


\* the pair the last successful refresh-token call has issued
NewestTokens ==
  LET newest == CHOOSE t \in refreshTokens : \A u \in refreshTokens : u.id <= t.id
  IN  Tokens(newest.userId, newest.token.iat)

\* C30 as claimed: no request of the page is sent more than twice, and
\* when every request has settled and a refresh attempt has succeeded,
\* localStorage holds the newest token pair and the page has not gone to
\* /login.
C30_RefreshKept ==
  /\ \A k \in DOMAIN client : client[k].sends <= 2
  /\ (/\ \A k \in DOMAIN client : client[k].pc \in Settled
      /\ \E k \in DOMAIN client : client[k].refreshed)
       => (storage = NewestTokens /\ href # "/login")

====
